---- MODULE Spec2Model ----
(***************************************************************************)
(* State-machine model of the admin console widgets of                     *)
(* diagnostic-chatwise-ui: ChatInterface, HumanAgentDesk, UrlScraper,      *)
(* AgentManager with MainApp, JSONUpload, KnowledgeBaseViewer and          *)
(* AgentConfig.                                                            *)
(*                                                                         *)
(* Every widget is a React function component.  One variable holds the     *)
(* state of one widget as a record: its useState cells, its refs, the      *)
(* requests it has in flight and the timers it has scheduled.  A request   *)
(* is answered by the backend in one step (Respond) and its continuation   *)
(* runs in a later step (Handle).  The continuation of an aborted fetch    *)
(* is a microtask: it runs before any other event is dispatched.           *)
(*                                                                         *)
(* Texts are sequences of tokens, so that a template string is the         *)
(* concatenation of its parts and "contains" is membership.  User-typed    *)
(* strings are sequences of one-character strings.                         *)
(***************************************************************************)
EXTENDS Integers, Sequences, FiniteSets, Bags, TLC

VARIABLES ci, hd, us, am, ju, kv, ac

vars == <<ci, hd, us, am, ju, kv, ac>>

\* null for a nullable text (an error message is never the empty text)
Null == <<>>

\* null for a ref or an id
NoRef == 0

\* null for a nullable agent id
NoKb == "none"

\* an absent string field of a response body
Absent == "absent"

KbIds == {"A", "B"}

Pending == [kind |-> "pending"]

\* Status codes and bodies a non-success response can carry.
HttpStatuses == {"400", "500"}

ServerMessage == "boom"

HttpBodies == {"", ServerMessage}

HttpErrorsOf(statuses) == {[kind |-> "http", status |-> s, body |-> b] : s \in statuses, b \in HttpBodies}

HttpErrors == HttpErrorsOf({"500"})

NetworkError == [kind |-> "neterr"]

\* The failures of the chat POST and of the history DELETE.
ChatFailures == {[kind |-> "http", status |-> "500", body |-> ""], NetworkError}

\* The message of the TypeError fetch rejects with when the network fails.
FailedToFetch == <<"Failed to fetch">>

Contains(text, token) == \E i \in 1..Len(text) : text[i] = token

Remove(reqs, id) == {r \in reqs : r.id # id}

Replace(reqs, id, r2) == Remove(reqs, id) \cup {r2}

HasId(reqs, id) == \E r \in reqs : r.id = id

(***************************************************************************)
(* String.prototype.trim on a sequence of one-character strings.           *)
(***************************************************************************)
IsSpace(c) == c = " "

RECURSIVE TrimStart(_)
TrimStart(s) == IF s = <<>> THEN s
                ELSE IF IsSpace(Head(s)) THEN TrimStart(Tail(s)) ELSE s

RECURSIVE TrimEnd(_)
TrimEnd(s) == IF s = <<>> THEN s
              ELSE IF IsSpace(s[Len(s)]) THEN TrimEnd(SubSeq(s, 1, Len(s) - 1)) ELSE s

Trim(s) == TrimEnd(TrimStart(s))

(***************************************************************************)
(* ChatInterface                                                           *)
(***************************************************************************)
MaxHist == 2

MaxChatEvents == 3

HistoryTypes == {"human", "ai", "handoff", "answer"}

\* What the backend stores as content for an agent's history items.
ContentOf(kb) == <<"said-to", kb>>

\* The histories the backend returns: the first items, up to MaxHist, of a
\* conversation that cycles through the item types, and every history of one
\* item.
HistoryTypeCycle == <<"human", "ai", "handoff", "answer">>

ServerHistories(kb) ==
    {[i \in 1..n |-> [type |-> HistoryTypeCycle[((i - 1) % 4) + 1],
                      content |-> ContentOf(kb)]] : n \in 0..MaxHist}
        \cup {<<[type |-> t, content |-> ContentOf(kb)]>> : t \in HistoryTypes}

ChatInputs == {<<" ">>, <<" ", "h">>}

ChatAnswers == {[kind |-> "ok", type |-> "handoff", content |-> <<"reply">>],
                [kind |-> "ok", type |-> Absent, content |-> <<>>]}

WelcomeText == <<"Hello! I'm your AI assistant. How can I help you today?">>

welcomeMessage ==
    [id |-> <<"ai-welcome">>, sender |-> "ai", text |-> WelcomeText,
     isLoading |-> FALSE, messageType |-> "ai"]

\* A mapping that knows only human and handoff items.
formattedHistoryTwoTypes(kbId, history) ==
    [i \in 1..Len(history) |->
        [id |-> <<"hist", kbId, i - 1>>,
         sender |-> IF history[i].type = "human" THEN "user" ELSE "ai",
         text |-> history[i].content,
         isLoading |-> FALSE,
         messageType |-> IF history[i].type = "human" THEN "user"
                         ELSE IF history[i].type = "handoff" THEN "handoff"
                         ELSE "ai"]]

\* data.history.map(...) of loadHistory
formattedHistory(kbId, history) ==
    [i \in 1..Len(history) |->
        [id |-> <<"hist", kbId, i - 1>>,
         sender |-> IF history[i].type = "human" THEN "user" ELSE "ai",
         text |-> history[i].content,
         isLoading |-> FALSE,
         messageType |-> IF history[i].type = "human" THEN "user"
                         ELSE IF history[i].type = "handoff" THEN "handoff"
                         ELSE IF history[i].type = "answer" THEN "answer"
                         ELSE "ai"]]

\* error.message of what loadHistory's try block throws for a response
HistoryErrorMessage(resp) ==
    IF resp.kind = "http"
    THEN <<"HTTP error! status: ", resp.status, ", details: ",
           IF resp.body # "" THEN resp.body ELSE "Failed to fetch history">>
    ELSE FailedToFetch

\* An error message that is not marked as one.
HistoryErrorChatMessagePlain(resp) ==
    [id |-> <<"err-hist">>, sender |-> "ai",
     text |-> <<"Error loading history: ">> \o HistoryErrorMessage(resp),
     isLoading |-> FALSE, messageType |-> "ai"]

\* The message loadHistory's catch puts in the chat.
HistoryErrorChatMessage(resp) ==
    [id |-> <<"err-hist">>, sender |-> "ai",
     text |-> <<"Error loading history: ">> \o HistoryErrorMessage(resp),
     isLoading |-> FALSE, messageType |-> "error"]

ChatErrorMessage(resp) ==
    IF resp.kind = "http"
    THEN <<"HTTP error! status: ", resp.status, ", details: ",
           IF resp.body # "" THEN resp.body ELSE "No details">>
    ELSE FailedToFetch

ClearErrorMessage(resp) ==
    IF resp.kind = "http"
    THEN <<"HTTP error! status: ", resp.status, ", details: ",
           IF resp.body # "" THEN resp.body ELSE "Failed to clear history">>
    ELSE FailedToFetch

\* A cleanup that forgets to abort.
AbortForgotten(reqs, id) == reqs

\* AbortController.abort() on the controller of request id
Abort(reqs, id) == {IF r.id = id THEN [r EXCEPT !.aborted = TRUE] ELSE r : r \in reqs}

\* The rejection of an aborted fetch is handled before any other event.
CiMicrotaskPending ==
    \/ \E r \in ci.histReqs : r.aborted
    \/ \E r \in ci.chatReqs : r.aborted

\* A response has arrived: its continuation runs before any other event.
CiResponseArrived ==
    \/ \E r \in ci.histReqs : r.resp # Pending
    \/ \E r \in ci.chatReqs : r.resp # Pending
    \/ \E r \in ci.clearReqs : r.resp # Pending

CiBusy == CiMicrotaskPending \/ CiResponseArrived

CiInit ==
    ci = [kbId |-> "A",
          messages |-> <<>>,
          userInput |-> <<>>,
          isLoading |-> FALSE,
          isHistoryLoading |-> TRUE,
          historyError |-> Null,
          isClearingHistory |-> FALSE,
          clearHistoryError |-> Null,
          abortControllerRef |-> NoRef,
          historyAbortController |-> 1,
          histReqs |-> {[id |-> 1, kb |-> "A", aborted |-> FALSE, resp |-> Pending]},
          chatReqs |-> {},
          clearReqs |-> {},
          sendTimers |-> {},
          nHist |-> 1, nSend |-> 0, nClear |-> 0, nRegen |-> 0, nEvents |-> 0]

\* The kbId prop changes: the effect's cleanup runs, then loadHistory.
CiSelectKb(k) ==
    /\ ~CiBusy
    /\ k # ci.kbId
    /\ ci.nEvents < MaxChatEvents
    /\ ci' = [ci EXCEPT
            !.kbId = k,
            !.isHistoryLoading = TRUE,
            !.historyError = Null,
            !.messages = <<>>,
            !.userInput = <<>>,
            !.isLoading = FALSE,
            !.chatReqs = IF ci.abortControllerRef # NoRef
                         THEN Abort(ci.chatReqs, ci.abortControllerRef) ELSE @,
            !.abortControllerRef = NoRef,
            !.histReqs = Abort(@, ci.historyAbortController)
                            \cup {[id |-> ci.nHist + 1, kb |-> k, aborted |-> FALSE, resp |-> Pending]},
            !.historyAbortController = ci.nHist + 1,
            !.nHist = @ + 1,
            !.nEvents = @ + 1]
    /\ UNCHANGED <<hd, us, am, ju, kv, ac>>

HistoryResponses(kb) ==
    HttpErrors \cup {NetworkError} \cup {[kind |-> "ok", history |-> h] : h \in ServerHistories(kb)}

\* The backend answers GET /agents/{kb}/history.
CiHistoryRespond(id, resp) ==
    /\ ~CiBusy
    /\ \E r \in ci.histReqs :
         /\ r.id = id /\ r.resp = Pending
         /\ resp \in HistoryResponses(r.kb)
         /\ ci' = [ci EXCEPT !.histReqs = Replace(@, id, [r EXCEPT !.resp = resp])]
    /\ UNCHANGED <<hd, us, am, ju, kv, ac>>

\* loadHistory after its await, for a fetch that was not aborted.
CiHistoryHandle(id) ==
    /\ ~CiMicrotaskPending
    /\ \E r \in ci.histReqs :
         /\ r.id = id /\ r.resp # Pending /\ ~r.aborted
         /\ ci' = [ci EXCEPT
                 !.histReqs = Remove(@, id),
                 !.messages =
                     IF r.resp.kind = "ok"
                     THEN IF Len(formattedHistory(r.kb, r.resp.history)) = 0
                          THEN <<welcomeMessage>>
                          ELSE formattedHistory(r.kb, r.resp.history)
                     ELSE <<HistoryErrorChatMessage(r.resp)>>,
                 !.historyError =
                     IF r.resp.kind = "ok" THEN @ ELSE HistoryErrorMessage(r.resp),
                 !.isHistoryLoading = FALSE]
    /\ UNCHANGED <<hd, us, am, ju, kv, ac>>

\* A catch that does not tell AbortError from other errors.
CiHistoryAbortedAsError(id) ==
    /\ \E r \in ci.histReqs :
         /\ r.id = id /\ r.aborted
         /\ ci' = [ci EXCEPT
                 !.histReqs = Remove(@, id),
                 !.historyError = <<"The user aborted a request.">>,
                 !.messages = <<HistoryErrorChatMessage(NetworkError)>>,
                 !.isHistoryLoading = FALSE]
    /\ UNCHANGED <<hd, us, am, ju, kv, ac>>

\* loadHistory's catch and finally for a fetch rejected with AbortError.
CiHistoryAborted(id) ==
    /\ \E r \in ci.histReqs :
         /\ r.id = id /\ r.aborted
         /\ ci' = [ci EXCEPT
                 !.histReqs = Remove(@, id),
                 !.isHistoryLoading = FALSE]
    /\ UNCHANGED <<hd, us, am, ju, kv, ac>>

\* handleTextareaChange; the textarea is disabled while loading or clearing.
CiType(s) ==
    /\ ~CiBusy
    /\ ~ci.isLoading /\ ~ci.isClearingHistory
    /\ s # ci.userInput
    /\ ci' = [ci EXCEPT !.userInput = s]
    /\ UNCHANGED <<hd, us, am, ju, kv, ac>>

\* The guard of handleSendMessage, on the userInput and isLoading it closes over.
SendRefused(userInput, isLoading) == Trim(userInput) = <<>> \/ isLoading

\* handleSendMessage past its guard, for the userInput and kbId it closes over.
CiSent(userInput, kbId) ==
    LET n == ci.nSend + 1
        userMessage == [id |-> <<"user", n>>, sender |-> "user",
                        text |-> Trim(userInput), isLoading |-> FALSE,
                        messageType |-> "user"]
        aiPlaceholderMessage == [id |-> <<"ai-loading", n>>, sender |-> "ai",
                        text |-> <<>>, isLoading |-> TRUE, messageType |-> "ai"]
    IN [ci EXCEPT
            !.chatReqs = (IF ci.abortControllerRef # NoRef
                          THEN Abort(@, ci.abortControllerRef) ELSE @)
                           \cup {[id |-> n, kb |-> kbId, aborted |-> FALSE,
                                  resp |-> Pending, message |-> Trim(userInput)]},
            !.abortControllerRef = n,
            !.messages = @ \o <<userMessage, aiPlaceholderMessage>>,
            !.userInput = <<>>,
            !.isLoading = TRUE,
            !.nSend = n]

\* The send button or the Enter key: handleSendMessage of the current render.
\* The textarea and the button are disabled while the history is cleared.
CiSendMessage ==
    /\ ~CiBusy
    /\ ~ci.isClearingHistory
    /\ ~SendRefused(ci.userInput, ci.isLoading)
    /\ ci.nEvents < MaxChatEvents
    /\ ci' = [CiSent(ci.userInput, ci.kbId) EXCEPT !.nEvents = @ + 1]
    /\ UNCHANGED <<hd, us, am, ju, kv, ac>>

\* The Regenerate button is rendered on an AI message that is not loading,
\* not an error and not a handoff.
RegenerateShown ==
    \E i \in 1..Len(ci.messages) :
        /\ ci.messages[i].sender = "ai" /\ ~ci.messages[i].isLoading
        /\ ci.messages[i].messageType \notin {"error", "handoff"}

UserMessageIndexes == {i \in 1..Len(ci.messages) : ci.messages[i].sender = "user"}

\* handleRegenerateResponse: the timer it sets calls the handleSendMessage of
\* the render in which the button was clicked.
CiRegenerate ==
    /\ ~CiBusy
    /\ RegenerateShown /\ ~ci.isLoading
    /\ ci.nEvents < MaxChatEvents
    /\ IF UserMessageIndexes = {}
       THEN ci' = [ci EXCEPT !.nRegen = @ + 1, !.nEvents = @ + 1]
       ELSE LET last == CHOOSE i \in UserMessageIndexes : \A j \in UserMessageIndexes : j <= i
            IN ci' = [ci EXCEPT
                    !.userInput = ci.messages[last].text,
                    !.sendTimers = @ \cup {[id |-> ci.nRegen + 1,
                                            userInput |-> ci.userInput,
                                            isLoading |-> ci.isLoading,
                                            kbId |-> ci.kbId,
                                            lastUserMessage |-> ci.messages[last].text]},
                    !.nRegen = @ + 1,
                    !.nEvents = @ + 1]
    /\ UNCHANGED <<hd, us, am, ju, kv, ac>>

\* setTimeout(() => handleSendMessage(), 0) fires.
CiSendTimerFire(t) ==
    /\ ~CiBusy
    /\ t \in ci.sendTimers
    /\ IF SendRefused(t.userInput, t.isLoading)
       THEN ci' = [ci EXCEPT !.sendTimers = @ \ {t}]
       ELSE ci' = [CiSent(t.userInput, t.kbId) EXCEPT !.sendTimers = @ \ {t}]
    /\ UNCHANGED <<hd, us, am, ju, kv, ac>>

\* The backend answers POST /agents/{kb}/chat.
CiChatRespond(id, resp) ==
    /\ ~CiBusy
    /\ resp \in ChatAnswers \cup ChatFailures
    /\ \E r \in ci.chatReqs :
         /\ r.id = id /\ r.resp = Pending
         /\ ci' = [ci EXCEPT !.chatReqs = Replace(@, id, [r EXCEPT !.resp = resp])]
    /\ UNCHANGED <<hd, us, am, ju, kv, ac>>

\* The then/catch/finally chain of handleSendMessage, fetch not aborted.
CiChatHandle(id) ==
    /\ ~CiMicrotaskPending
    /\ \E r \in ci.chatReqs :
         /\ r.id = id /\ r.resp # Pending /\ ~r.aborted
         /\ ci' = [ci EXCEPT
                 !.chatReqs = Remove(@, id),
                 !.messages =
                     [i \in 1..Len(@) |->
                        IF @[i].id = <<"ai-loading", id>>
                        THEN IF r.resp.kind = "ok"
                             THEN [@[i] EXCEPT
                                     !.text = IF r.resp.content # <<>> THEN r.resp.content
                                              ELSE <<"No answer provided">>,
                                     !.isLoading = FALSE,
                                     !.messageType = IF r.resp.type # Absent THEN r.resp.type ELSE "ai"]
                             ELSE [@[i] EXCEPT
                                     !.text = <<"Error: ">> \o ChatErrorMessage(r.resp),
                                     !.isLoading = FALSE,
                                     !.messageType = "error"]
                        ELSE @[i]],
                 !.isLoading = FALSE,
                 !.abortControllerRef = NoRef]
    /\ UNCHANGED <<hd, us, am, ju, kv, ac>>

\* The catch and finally of handleSendMessage for an aborted fetch.
CiChatAborted(id) ==
    /\ \E r \in ci.chatReqs :
         /\ r.id = id /\ r.aborted
         /\ ci' = [ci EXCEPT
                 !.chatReqs = Remove(@, id),
                 !.isLoading = FALSE,
                 !.abortControllerRef = NoRef]
    /\ UNCHANGED <<hd, us, am, ju, kv, ac>>

\* handleClearHistory up to its await; window.confirm answers confirmed.
CiClearHistory(userConfirmed) ==
    /\ ~CiBusy
    /\ ~ci.isClearingHistory /\ ~ci.isHistoryLoading
    /\ ci.nEvents < MaxChatEvents
    /\ ci' = [ci EXCEPT
            !.clearHistoryError = Null,
            !.isClearingHistory = userConfirmed,
            !.clearReqs = IF userConfirmed
                          THEN @ \cup {[id |-> ci.nClear + 1, kb |-> ci.kbId, resp |-> Pending]}
                          ELSE @,
            !.nClear = @ + 1,
            !.nEvents = @ + 1]
    /\ UNCHANGED <<hd, us, am, ju, kv, ac>>

\* The backend answers DELETE /agents/{kb}/history.
CiClearRespond(id, resp) ==
    /\ ~CiBusy
    /\ resp \in {[kind |-> "ok"]} \cup ChatFailures
    /\ \E r \in ci.clearReqs :
         /\ r.id = id /\ r.resp = Pending
         /\ ci' = [ci EXCEPT !.clearReqs = Replace(@, id, [r EXCEPT !.resp = resp])]
    /\ UNCHANGED <<hd, us, am, ju, kv, ac>>

\* A clear that leaves the history error in place.
CiClearHandleKeepsError(id) ==
    /\ ~CiMicrotaskPending
    /\ \E r \in ci.clearReqs :
         /\ r.id = id /\ r.resp # Pending
         /\ ci' = [ci EXCEPT
                 !.clearReqs = Remove(@, id),
                 !.messages = IF r.resp.kind = "ok" THEN <<welcomeMessage>> ELSE @,
                 !.clearHistoryError = IF r.resp.kind = "ok" THEN @ ELSE ClearErrorMessage(r.resp),
                 !.isClearingHistory = FALSE]
    /\ UNCHANGED <<hd, us, am, ju, kv, ac>>

\* handleClearHistory after its await.
CiClearHandle(id) ==
    /\ ~CiMicrotaskPending
    /\ \E r \in ci.clearReqs :
         /\ r.id = id /\ r.resp # Pending
         /\ ci' = [ci EXCEPT
                 !.clearReqs = Remove(@, id),
                 !.messages = IF r.resp.kind = "ok" THEN <<welcomeMessage>> ELSE @,
                 !.historyError = IF r.resp.kind = "ok" THEN Null ELSE @,
                 !.clearHistoryError = IF r.resp.kind = "ok" THEN @ ELSE ClearErrorMessage(r.resp),
                 !.isClearingHistory = FALSE]
    /\ UNCHANGED <<hd, us, am, ju, kv, ac>>

NextChat ==
    \/ \E k \in KbIds : CiSelectKb(k)
    \/ \E r \in ci.histReqs : \E resp \in HistoryResponses(r.kb) : CiHistoryRespond(r.id, resp)
    \/ \E r \in ci.histReqs : CiHistoryHandle(r.id)
    \/ \E r \in ci.histReqs : CiHistoryAborted(r.id)
    \/ \E s \in ChatInputs : CiType(s)
    \/ CiSendMessage
    \/ CiRegenerate
    \/ \E t \in ci.sendTimers : CiSendTimerFire(t)
    \/ \E r \in ci.chatReqs, resp \in ChatAnswers \cup ChatFailures :
          CiChatRespond(r.id, resp)
    \/ \E r \in ci.chatReqs : CiChatHandle(r.id)
    \/ \E r \in ci.chatReqs : CiChatAborted(r.id)
    \/ \E c \in BOOLEAN : CiClearHistory(c)
    \/ \E r \in ci.clearReqs, resp \in {[kind |-> "ok"]} \cup ChatFailures :
          CiClearRespond(r.id, resp)
    \/ \E r \in ci.clearReqs : CiClearHandle(r.id)

\* The messages of m that are rendered as errors.
ErrorMessages(m) == {m[i] : i \in {j \in 1..Len(m) : m[j].messageType = "error"}}

\* msgs shows exactly the history h of agent kb, item by item.
HoldsHistoryOf(msgs, kb, h) ==
    /\ Len(msgs) = Len(h)
    /\ \A i \in 1..Len(h) :
         /\ msgs[i].id = <<"hist", kb, i - 1>>
         /\ msgs[i].text = h[i].content
         /\ msgs[i].text = ContentOf(kb)
         /\ msgs[i].messageType # "error"

\* A change of the selected agent aborts every history request in flight.
CiSelectionAborts ==
    ci'.kbId # ci.kbId =>
        \A r \in ci.histReqs : \E r2 \in ci'.histReqs : r2.id = r.id /\ r2.aborted

\* The outcome of an aborted history request changes neither messages nor historyError.
CiAbortedHistoryIsSilent ==
    \A r \in ci.histReqs :
        (r.aborted /\ ~HasId(ci'.histReqs, r.id)) =>
            /\ ci'.messages = ci.messages
            /\ ci'.historyError = ci.historyError

\* C1 as stated: when the selected agent changes from A to B while A's history
\* GET is in flight, the GET is aborted and its outcome changes neither messages
\* nor historyError; once B's request settles, messages holds B's history or
\* the welcome message only.
C1_StaleHistoryIgnored_AsStated ==
    [][/\ CiSelectionAborts
       /\ CiAbortedHistoryIsSilent
       /\ \A r \in ci.histReqs :
            (r.id > 1 /\ ~r.aborted /\ ~HasId(ci'.histReqs, r.id)) =>
               /\ r.kb = ci'.kbId
               /\ \/ ci'.messages = <<welcomeMessage>>
                  \/ /\ r.resp.kind = "ok"
                     /\ r.resp.history # <<>>
                     /\ HoldsHistoryOf(ci'.messages, r.kb, r.resp.history)]_vars

\* C1 amended: as C1, but B's request may also fail; once B's request settles,
\* messages holds B's history (or the welcome message) only when it succeeded,
\* and exactly one error message reporting B's failure when it failed.
C1_StaleHistoryIgnored ==
    [][/\ CiSelectionAborts
       /\ CiAbortedHistoryIsSilent
       /\ \A r \in ci.histReqs :
            (r.id > 1 /\ ~r.aborted /\ ~HasId(ci'.histReqs, r.id)) =>
               /\ r.kb = ci'.kbId
               /\ r.resp.kind = "ok" =>
                    IF r.resp.history = <<>>
                    THEN ci'.messages = <<welcomeMessage>>
                    ELSE HoldsHistoryOf(ci'.messages, r.kb, r.resp.history)
               /\ r.resp.kind # "ok" =>
                    /\ Len(ci'.messages) = 1
                    /\ ci'.messages[1].messageType = "error"
                    /\ ci'.historyError # Null]_vars

\* B is selected, the abort of A's request has been handled (the loading flag
\* was reset while B's request is in flight), B's history has arrived and
\* messages is still empty.
C1_Witness ==
    /\ ci.kbId = "B"
    /\ ~ci.isHistoryLoading
    /\ ci.messages = <<>>
    /\ ci.historyError = Null
    /\ \E r \in ci.histReqs :
         r.kb = "B" /\ ~r.aborted /\ r.resp.kind = "ok" /\ Len(r.resp.history) = MaxHist

\* C3: a history GET or a chat POST that ends with AbortError leaves
\* historyError unchanged and adds or turns no message into an error message.
C3_AbortNotSurfaced ==
    [][/\ \A r \in ci.histReqs :
            (r.aborted /\ ~HasId(ci'.histReqs, r.id)) =>
               /\ ci'.historyError = ci.historyError
               /\ ErrorMessages(ci'.messages) \subseteq ErrorMessages(ci.messages)
       /\ \A r \in ci.chatReqs :
            (r.aborted /\ ~HasId(ci'.chatReqs, r.id)) =>
               /\ ci'.historyError = ci.historyError
               /\ ErrorMessages(ci'.messages) \subseteq ErrorMessages(ci.messages)]_vars

\* The agent changed while a history GET and a chat POST were in flight: the
\* abort of the history GET has been handled (the loading flag is reset while
\* the new agent's request is still in flight) without an error, and the abort
\* of the chat POST is about to be handled.
C3_Witness ==
    /\ ci.kbId = "B"
    /\ ~ci.isHistoryLoading /\ ci.historyError = Null
    /\ ErrorMessages(ci.messages) = {}
    /\ \A r \in ci.histReqs : ~r.aborted /\ r.resp = Pending
    /\ ci.histReqs # {}
    /\ \E r \in ci.chatReqs : r.aborted

\* The message the claim expects for one history item.
ExpectedSender(type) == IF type = "human" THEN "user" ELSE "ai"

ExpectedMessageType(type) ==
    CASE type = "human" -> "user"
      [] type = "handoff" -> "handoff"
      [] type = "answer" -> "answer"
      [] OTHER -> "ai"

IsWelcome(m) == m.id = <<"ai-welcome">> /\ m.text = WelcomeText /\ m.sender = "ai"

IsHistoryItem(m) == m.id[1] = "hist"

\* C17: when a history request of the current agent succeeds, messages becomes
\* the returned history mapped item by item in order (human to sender user, any
\* other type to sender ai with messageType handoff, answer or ai), or exactly
\* one welcome message when the history is empty; and the welcome message is
\* never shown together with history items.
C17_HistoryMapping ==
    /\ [](\A i, j \in 1..Len(ci.messages) :
             ~(IsWelcome(ci.messages[i]) /\ IsHistoryItem(ci.messages[j])))
    /\ [][\A r \in ci.histReqs :
            (~r.aborted /\ r.resp # Pending /\ r.resp.kind = "ok"
                /\ ~HasId(ci'.histReqs, r.id)) =>
               /\ r.kb = ci.kbId
               /\ IF r.resp.history = <<>>
                  THEN Len(ci'.messages) = 1 /\ IsWelcome(ci'.messages[1])
                  ELSE /\ Len(ci'.messages) = Len(r.resp.history)
                       /\ \A i \in 1..Len(r.resp.history) :
                            /\ ci'.messages[i].text = r.resp.history[i].content
                            /\ ci'.messages[i].sender = ExpectedSender(r.resp.history[i].type)
                            /\ ci'.messages[i].messageType =
                                   ExpectedMessageType(r.resp.history[i].type)
                            /\ IsHistoryItem(ci'.messages[i])]_vars

\* The history of the current agent has loaded with an item of type answer,
\* shown as an ai message of messageType answer.
C17_Witness ==
    /\ ~ci.isHistoryLoading /\ ci.histReqs = {}
    /\ Len(ci.messages) = 1
    /\ IsHistoryItem(ci.messages[1])
    /\ ci.messages[1].sender = "ai" /\ ci.messages[1].messageType = "answer"

\* C18: when the history request of the current agent fails for a reason
\* other than abort (a non-success status or a network error), historyError is
\* set, messages becomes exactly one message of messageType error, and
\* isHistoryLoading ends false.
C18_HistoryFailureShown ==
    [][\A r \in ci.histReqs :
         (~r.aborted /\ r.resp # Pending /\ r.resp.kind # "ok"
             /\ ~HasId(ci'.histReqs, r.id)) =>
            /\ r.kb = ci.kbId
            /\ ci'.historyError # Null
            /\ Len(ci'.messages) = 1
            /\ ci'.messages[1].messageType = "error"
            /\ ~ci'.isHistoryLoading]_vars

\* The history request of the current agent has failed with status 500: the
\* chat holds the one error message.
C18_Witness ==
    /\ ci.histReqs = {}
    /\ ~ci.isHistoryLoading
    /\ ci.historyError # Null /\ Contains(ci.historyError, "500")
    /\ Len(ci.messages) = 1 /\ ci.messages[1].messageType = "error"

\* The history request of the selected agent is in flight.
CurrentHistoryInFlight ==
    \E r \in ci.histReqs : r.kb = ci.kbId /\ ~r.aborted /\ r.resp = Pending

\* C19: isHistoryLoading is true in every state in which the history request
\* of the selected agent is in flight, also after a re-selection from one agent
\* to another.
C19_LoadingWhileInFlight == CurrentHistoryInFlight => ci.isHistoryLoading

\* The chat POST requests in flight that have not been aborted.
ChatPostsInFlight == {r \in ci.chatReqs : ~r.aborted}

\* C14: when the selected agent changes while a chat POST is in flight, that
\* POST is aborted and isLoading becomes false; the completion of an aborted
\* POST of the agent that was left changes neither the messages of the new
\* agent nor the abort controller, so it cannot clear the controller of a
\* request started after the change.
C14_AgentChangeAbortsChat ==
    [][/\ ci'.kbId # ci.kbId =>
            /\ \A r \in ChatPostsInFlight :
                  \E q \in ci'.chatReqs : q.id = r.id /\ q.aborted
            /\ ~ci'.isLoading
       /\ \A r \in ci.chatReqs :
            (r.aborted /\ r.kb # ci.kbId /\ ~HasId(ci'.chatReqs, r.id)) =>
               /\ ci'.messages = ci.messages
               /\ ci'.abortControllerRef = ci.abortControllerRef]_vars

\* C20: handleSendMessage sends nothing when the input is empty or blank or
\* while isLoading is true; a step that sends a chat POST starts with isLoading
\* false, sends a trimmed non-empty message, appends exactly that user message
\* and one loading placeholder, clears the input and sets isLoading; and at
\* most one chat POST is in flight at any time.
C20_SendGuarded ==
    /\ [](Cardinality(ChatPostsInFlight) <= 1)
    /\ [][\A r \in ci'.chatReqs :
            ~HasId(ci.chatReqs, r.id) =>
               /\ ~ci.isLoading
               /\ r.message # <<>> /\ r.message = Trim(r.message)
               /\ Len(ci'.messages) = Len(ci.messages) + 2
               /\ \A i \in 1..Len(ci.messages) : ci'.messages[i] = ci.messages[i]
               /\ LET userMessage == ci'.messages[Len(ci.messages) + 1]
                      placeholder == ci'.messages[Len(ci.messages) + 2]
                  IN /\ userMessage.sender = "user" /\ userMessage.text = r.message
                     /\ ~userMessage.isLoading
                     /\ placeholder.sender = "ai" /\ placeholder.isLoading
               /\ ci'.userInput = <<>>
               /\ ci'.isLoading]_vars

\* The second part of C20 alone: at most one chat POST is in flight.
OneChatPostInFlight == Cardinality(ChatPostsInFlight) <= 1

\* The positions of the messages rendered as loading placeholders.
LoadingMessages == {i \in 1..Len(ci.messages) : ci.messages[i].isLoading}

\* C21: at most one message has isLoading true, and whenever the isLoading
\* flag is false no message has isLoading true.
C21_OneLoadingPlaceholder ==
    /\ Cardinality(LoadingMessages) <= 1
    /\ ~ci.isLoading => LoadingMessages = {}

\* A DELETE of the history has succeeded and this step handles it.
ClearSucceeds ==
    \E r \in ci.clearReqs :
        r.resp # Pending /\ r.resp.kind = "ok" /\ ~HasId(ci'.clearReqs, r.id)

\* The messages the user sent (not the human items of a loaded history).
IsSentMessage(m) == m.id[1] = "user"

\* C22: in a step that neither changes the agent nor completes a clear of the
\* history, every message the user sent stays in messages, and when the POST
\* of a sent message completes its placeholder is replaced by the answer or
\* an error; also for a message sent while the history request is in flight.
C22_SentMessageKept ==
    [][(ci'.kbId = ci.kbId /\ ~ClearSucceeds) =>
          /\ \A i \in 1..Len(ci.messages) :
                IsSentMessage(ci.messages[i]) =>
                   \E j \in 1..Len(ci'.messages) : ci'.messages[j] = ci.messages[i]
          /\ \A r \in ci.chatReqs :
                (~r.aborted /\ r.resp # Pending /\ ~HasId(ci'.chatReqs, r.id)) =>
                   \E j \in 1..Len(ci'.messages) :
                      /\ ci'.messages[j].id = <<"ai-loading", r.id>>
                      /\ ~ci'.messages[j].isLoading]_vars

\* C23: the timer set by a click on Regenerate causes a chat POST whose
\* message is the text of the most recent user message at the click.
C23_RegenerateResends ==
    [][\A t \in ci.sendTimers :
          t \notin ci'.sendTimers =>
             \E r \in ci'.chatReqs :
                /\ ~HasId(ci.chatReqs, r.id)
                /\ r.message = t.lastUserMessage]_vars

\* C24: a declined clear sends no DELETE and leaves messages alone; a failed
\* DELETE leaves messages alone and sets clearHistoryError; a successful one
\* makes messages exactly the welcome message and clears historyError;
\* isClearingHistory ends false in all three cases, and at most one DELETE is
\* in flight.
C24_ClearHistory ==
    /\ [](Cardinality(ci.clearReqs) <= 1)
    /\ [][/\ (ci'.nClear # ci.nClear /\ ci'.clearReqs = ci.clearReqs) =>
                /\ ci'.messages = ci.messages
                /\ ~ci'.isClearingHistory
          /\ (ci'.nClear # ci.nClear /\ ci'.clearReqs # ci.clearReqs) =>
                /\ ci.clearReqs = {}
                /\ ~ci.isClearingHistory
          /\ \A r \in ci.clearReqs :
                (r.resp # Pending /\ ~HasId(ci'.clearReqs, r.id)) =>
                   /\ ~ci'.isClearingHistory
                   /\ IF r.resp.kind = "ok"
                      THEN /\ ci'.messages = <<welcomeMessage>>
                           /\ ci'.historyError = Null
                      ELSE /\ ci'.messages = ci.messages
                           /\ ci'.clearHistoryError # Null]_vars

\* The history failed to load, so historyError is set and the chat shows the
\* error message; the DELETE the user confirmed has succeeded and its
\* continuation is about to run.
C24_Witness ==
    /\ ci.historyError # Null
    /\ ci.isClearingHistory
    /\ Len(ci.messages) = 1 /\ ci.messages[1].messageType = "error"
    /\ \E r \in ci.clearReqs : r.resp # Pending /\ r.resp.kind = "ok"

(***************************************************************************)
(* HumanAgentDesk                                                          *)
(***************************************************************************)
MaxDeskHist == 1

\* Events of a run that start a request: interval ticks, selections, replies.
MaxDeskEvents == 3


MaxTimestamp == 2

ApiMessageTypes == {"human", "human_agent"}

DeskHistories(kb) ==
    UNION {[1..n -> [type : ApiMessageTypes, content : {ContentOf(kb)}, timestamp : {1}]] :
              n \in 0..MaxDeskHist}

\* The backend keeps one conversation per agent; B's needs a human.
ServerConversation(kb) ==
    [kb_id : {kb}, last_message_timestamp : 1..MaxTimestamp,
     needs_human_attention : {kb = "B"}]

\* The lists GET /conversations can return: none, or both agents' conversations
\* in either order.
ServerConversationLists ==
    {<<>>} \cup {<<c, d>> : c \in ServerConversation("A"), d \in ServerConversation("B")}
           \cup {<<d, c>> : c \in ServerConversation("A"), d \in ServerConversation("B")}

ResponseTexts == {<<>>, <<" ">>, <<"o", "k">>}

DeskHttpErrors == HttpErrorsOf(HttpStatuses)

\* Array.prototype.sort with the comparator of fetchConversations (stable).
RECURSIVE InsertNewestFirst(_, _)
InsertNewestFirst(c, sorted) ==
    IF sorted = <<>> THEN <<c>>
    ELSE IF Head(sorted).last_message_timestamp >= c.last_message_timestamp
         THEN <<Head(sorted)>> \o InsertNewestFirst(c, Tail(sorted))
         ELSE <<c>> \o sorted

RECURSIVE SortNewestFirst(_)
SortNewestFirst(list) ==
    IF list = <<>> THEN <<>>
    ELSE InsertNewestFirst(list[Len(list)], SortNewestFirst(SubSeq(list, 1, Len(list) - 1)))

RECURSIVE FilterSeq(_, _)
FilterSeq(list, all) ==
    IF list = <<>> THEN <<>>
    ELSE (IF all \/ Head(list).needs_human_attention THEN <<Head(list)>> ELSE <<>>)
            \o FilterSeq(Tail(list), all)

\* A list that ignores the filter.
filteredConversationsAll == hd.conversations

\* conversations.filter(...) of the render
filteredConversations == FilterSeq(hd.conversations, hd.filter = "all")

mappedHistory(fetchedHistory) ==
    [i \in 1..Len(fetchedHistory) |->
        [sender |-> IF fetchedHistory[i].type = "human" THEN "user" ELSE fetchedHistory[i].type,
         text |-> fetchedHistory[i].content,
         timestamp |-> fetchedHistory[i].timestamp]]

\* err.message of what the try block of fetchConversations or
\* fetchConversationHistory throws
DeskFetchErrorMessage(resp) ==
    IF resp.kind = "http" THEN <<"HTTP error! status: ", resp.status>> ELSE FailedToFetch

\* err.message of what the try block of handleSendResponse throws
DeskSendErrorMessage(resp) ==
    IF resp.kind = "http"
    THEN IF resp.status = "400" THEN <<"Message cannot be empty">>
         ELSE <<"HTTP error! status: ", resp.status>>
    ELSE FailedToFetch

\* The two error banners of the render: both need no conversation selected.
HdErrorBannerShown == hd.error # Null /\ hd.selectedConversationId = NoKb

\* Requests in flight are told apart by what they ask only; the one whose
\* response has arrived is held apart, and its continuation runs before any
\* other event.
NoArrival == [kind |-> "none"]

HdResponseArrived == hd.arrived # NoArrival

HdRequest(kind, kb, then) == [kind |-> kind, kb |-> kb, then |-> then]

HdSent(r) == hd.pending (+) SetToBag({r})

HdInit ==
    hd = [conversations |-> <<>>,
          selectedConversationId |-> NoKb,
          conversationHistory |-> <<>>,
          isLoadingConversations |-> TRUE,
          isLoadingHistory |-> FALSE,
          error |-> Null,
          filter |-> "all",
          responseText |-> <<>>,
          isSending |-> FALSE,
          showSuccess |-> FALSE,
          pending |-> SetToBag({HdRequest("conversations", NoKb, "none")}),
          arrived |-> NoArrival,
          nEvents |-> 0]

\* The 30 s interval fires fetchConversations.
HdIntervalTick ==
    /\ ~HdResponseArrived
    /\ hd.nEvents < MaxDeskEvents
    /\ hd' = [hd EXCEPT
            !.nEvents = @ + 1,
            !.isLoadingConversations = TRUE,
            !.error = Null,
            !.pending = HdSent(HdRequest("conversations", NoKb, "none"))]
    /\ UNCHANGED <<ci, us, am, ju, kv, ac>>

\* What the backend can answer to request r.
DeskResponses(r) ==
    HttpErrors \cup {NetworkError}
      \cup (IF r.kind = "conversations"
            THEN {[kind |-> "ok", conversations |-> l] : l \in ServerConversationLists}
            ELSE IF r.kind = "history"
            THEN {[kind |-> "ok", history |-> h] : h \in DeskHistories(r.kb)}
            ELSE DeskHttpErrors \cup {[kind |-> "ok"]})

\* The backend answers a request of the desk.
HdRespond(r, resp) ==
    /\ ~HdResponseArrived
    /\ BagIn(r, hd.pending)
    /\ resp \in DeskResponses(r)
    /\ hd' = [hd EXCEPT
            !.pending = @ (-) SetToBag({r}),
            !.arrived = [kind |-> r.kind, kb |-> r.kb, then |-> r.then, resp |-> resp]]
    /\ UNCHANGED <<ci, us, am, ju, kv, ac>>

\* fetchConversations after its await; then, when handleSendResponse awaited
\* it, the rest of handleSendResponse.
HdConversationsHandle ==
    /\ hd.arrived.kind = "conversations"
    /\ LET r == hd.arrived
       IN hd' = [hd EXCEPT
                 !.arrived = NoArrival,
                 !.conversations = IF r.resp.kind = "ok"
                                   THEN SortNewestFirst(r.resp.conversations) ELSE @,
                 !.error = IF r.resp.kind = "ok" THEN @
                           ELSE <<"Failed to fetch conversations: ">> \o DeskFetchErrorMessage(r.resp),
                 !.isLoadingConversations = FALSE,
                 !.responseText = IF r.then = "send" THEN <<>> ELSE @,
                 !.showSuccess = IF r.then = "send" THEN TRUE ELSE @,
                 !.isSending = IF r.then = "send" THEN FALSE ELSE @]
    /\ UNCHANGED <<ci, us, am, ju, kv, ac>>

\* handleSelectConversation and the effect on selectedConversationId.
HdSelectConversation(kbId) ==
    /\ ~HdResponseArrived
    /\ ~hd.isLoadingConversations
    /\ \E i \in 1..Len(filteredConversations) : filteredConversations[i].kb_id = kbId
    /\ kbId # hd.selectedConversationId => hd.nEvents < MaxDeskEvents
    /\ hd' = IF kbId # hd.selectedConversationId
             THEN [hd EXCEPT
                     !.nEvents = @ + 1,
                     !.selectedConversationId = kbId,
                     !.responseText = <<>>,
                     !.isLoadingHistory = TRUE,
                     !.error = Null,
                     !.pending = HdSent(HdRequest("history", kbId, "none"))]
             ELSE [hd EXCEPT !.responseText = <<>>]
    /\ hd' # hd
    /\ UNCHANGED <<ci, us, am, ju, kv, ac>>

\* fetchConversationHistory after its await; then, when handleSendResponse
\* awaited it, handleSendResponse up to its await of fetchConversations.
HdHistoryHandle ==
    /\ hd.arrived.kind = "history"
    /\ LET r == hd.arrived
       IN hd' = [hd EXCEPT
                 !.arrived = NoArrival,
                 !.conversationHistory = IF r.resp.kind = "ok"
                                         THEN mappedHistory(r.resp.history) ELSE <<>>,
                 !.error = IF r.then = "send" THEN Null
                           ELSE IF r.resp.kind = "ok" THEN @
                           ELSE <<"Failed to fetch conversation history: ">>
                                    \o DeskFetchErrorMessage(r.resp),
                 !.isLoadingHistory = FALSE,
                 !.isLoadingConversations = IF r.then = "send" THEN TRUE ELSE @,
                 !.pending = IF r.then = "send"
                             THEN HdSent(HdRequest("conversations", NoKb, "send"))
                             ELSE @]
    /\ UNCHANGED <<ci, us, am, ju, kv, ac>>

\* The filter buttons.
HdSetFilter(f) ==
    /\ ~HdResponseArrived
    /\ f # hd.filter
    /\ hd' = [hd EXCEPT !.filter = f]
    /\ UNCHANGED <<ci, us, am, ju, kv, ac>>

\* handleTextareaChange; the textarea is rendered for a selected conversation
\* and disabled while sending.
HdType(s) ==
    /\ ~HdResponseArrived
    /\ hd.selectedConversationId # NoKb /\ ~hd.isSending
    /\ s # hd.responseText
    /\ hd' = [hd EXCEPT !.responseText = s]
    /\ UNCHANGED <<ci, us, am, ju, kv, ac>>

\* handleSendResponse up to its await of the POST.
HdSendResponse ==
    /\ ~HdResponseArrived
    /\ ~hd.isSending
    /\ hd.selectedConversationId # NoKb /\ Trim(hd.responseText) # <<>>
    /\ hd.nEvents < MaxDeskEvents
    /\ hd' = [hd EXCEPT
            !.nEvents = @ + 1,
            !.isSending = TRUE,
            !.error = Null,
            !.pending = HdSent(HdRequest("send", hd.selectedConversationId, "none"))]
    /\ UNCHANGED <<ci, us, am, ju, kv, ac>>

\* handleSendResponse after the POST: on success up to its await of
\* fetchConversationHistory, else its catch and finally.
HdSendHandle ==
    /\ hd.arrived.kind = "send"
    /\ LET r == hd.arrived
       IN hd' = IF r.resp.kind = "ok"
                THEN [hd EXCEPT
                        !.arrived = NoArrival,
                        !.isLoadingHistory = TRUE,
                        !.error = Null,
                        !.pending = HdSent(HdRequest("history", r.kb, "send"))]
                ELSE [hd EXCEPT
                        !.arrived = NoArrival,
                        !.error = DeskSendErrorMessage(r.resp),
                        !.isSending = FALSE]
    /\ UNCHANGED <<ci, us, am, ju, kv, ac>>

\* The 3 s timer that hides the success message.
HdSuccessTimeout ==
    /\ ~HdResponseArrived
    /\ hd.showSuccess
    /\ hd' = [hd EXCEPT !.showSuccess = FALSE]
    /\ UNCHANGED <<ci, us, am, ju, kv, ac>>

NextDesk ==
    \/ HdIntervalTick
    \/ \E r \in BagToSet(hd.pending) : \E resp \in DeskResponses(r) : HdRespond(r, resp)
    \/ HdConversationsHandle
    \/ \E k \in KbIds : HdSelectConversation(k)
    \/ HdHistoryHandle
    \/ \E f \in {"all", "attention"} : HdSetFilter(f)
    \/ \E s \in ResponseTexts : HdType(s)
    \/ HdSendResponse
    \/ HdSendHandle
    \/ HdSuccessTimeout

\* C2: when the selected conversation has changed from A to B, the response to
\* a history request issued for A never overwrites conversationHistory, and
\* once every request has settled conversationHistory is the history of the
\* selected conversation.
C2_StaleDeskHistoryIgnored ==
    [][/\ (hd.arrived.kind = "history" /\ hd.arrived.kb # hd.selectedConversationId) =>
              hd'.conversationHistory = hd.conversationHistory
       /\ (hd'.arrived = NoArrival /\ hd'.pending = EmptyBag
              /\ hd'.selectedConversationId # NoKb) =>
              \A i \in 1..Len(hd'.conversationHistory) :
                  hd'.conversationHistory[i].text = ContentOf(hd'.selectedConversationId)]_vars

\* C7: when the reply to the selected conversation fails with a non-success
\* HTTP response, the error is set and an error banner is rendered.
C7_SendFailureBanner ==
    [][(hd.arrived.kind = "send" /\ hd.arrived.resp.kind = "http") =>
          (hd'.error # Null /\ HdErrorBannerShown')]_vars

\* C9: when the backend answers a request with a non-success status whose body
\* carries a message, the error text stored for display contains that message.
C9_ErrorCarriesServerMessage ==
    [][(/\ hd.arrived.kind \in {"conversations", "history", "send"}
        /\ hd.arrived.resp.kind = "http"
        /\ hd.arrived.resp.body = ServerMessage) =>
          Contains(hd'.error, ServerMessage)]_vars

(***************************************************************************)
(* UrlScraper                                                              *)
(*                                                                         *)
(* A polling chain is what one run of the polling effect started: the      *)
(* closure pollStatus with the kbId it captured, either waiting for its    *)
(* scrape-status response (phase "fetch") or for its 2 s timer (phase      *)
(* "timer").  current: the effect run that started the chain has not been  *)
(* cleaned up.  own: the chain belongs to the mounted instance, so its     *)
(* state setters take effect.                                              *)
(***************************************************************************)
MaxChains == 2

MaxMounts == 2

\* A URL is a sequence of parts: a scheme part first, then the rest.
UrlInputs == {<<"ftp://", "x">>, <<"http://">>, <<"https://", "x">>}

MaxPagesInputs == {0, 1}

ScrapeStatuses == {"processing", "completed", "failed"}

Schemes == {"http://", "https://", "ftp://"}

\* new URL(urlString) does not throw: a scheme followed by something.
ParsesAsUrl(urlString) == Len(urlString) >= 2 /\ urlString[1] \in Schemes

isValidUrl(urlString) ==
    IF ParsesAsUrl(urlString)
    THEN urlString[1] = "http://" \/ urlString[1] = "https://"
    ELSE FALSE

\* message of the Error thrown for a scrape response that is not ok
ScrapeErrorMessage(resp, fallback) ==
    IF resp.kind = "http"
    THEN IF resp.body # "" THEN <<resp.body>> ELSE <<fallback, resp.status>>
    ELSE FailedToFetch

NoStatus == "none"

UsFresh(mounted, kbId) ==
    [mounted |-> mounted, kbId |-> kbId,
     url |-> <<>>, maxPages |-> 1,
     isSubmitting |-> FALSE, error |-> Null, successMessage |-> Null,
     scrapeStatus |-> NoStatus, isPolling |-> FALSE]

UsInit ==
    us = [view |-> UsFresh(TRUE, "A"),
          chains |-> EmptyBag,
          submits |-> EmptyBag,
          arrived |-> NoArrival,
          clearTimers |-> {},
          parity |-> 0,
          nMounts |-> 1]

UsBusy == us.arrived # NoArrival

Chain(kb, phase, current, own) == [kb |-> kb, phase |-> phase, current |-> current, own |-> own]

ChainSet == BagToSet(us.chains)

BagOfSeq(f, chains) ==
    LET image == {f[c] : c \in BagToSet(chains)}
    IN [d \in image |->
          LET pre == {c \in BagToSet(chains) : f[c] = d}
              RECURSIVE Sum(_)
              Sum(S) == IF S = {} THEN 0
                        ELSE LET c == CHOOSE x \in S : TRUE
                             IN chains[c] + Sum(S \ {c})
          IN Sum(pre)]

\* The cleanup of the polling effect: clearTimeout(timeoutId) when the run had a
\* timer set; a request in flight is left alone and its chain lives on.
EffectCleanup(chains) ==
    LET kept == {c \in BagToSet(chains) : ~(c.current /\ c.phase = "timer")}
    IN BagOfSeq([c \in kept |-> [c EXCEPT !.current = FALSE]],
                [c \in kept |-> chains[c]])

\* The polling effect: cleanup of the previous run, then pollStatus when isPolling.
PollingEffect(chains, isPolling, kbId) ==
    IF isPolling
    THEN EffectCleanup(chains) (+) SetToBag({Chain(kbId, "fetch", TRUE, TRUE)})
    ELSE EffectCleanup(chains)

Flip(b) == 1 - b

\* A polling loop with a retry ceiling of one request.
RescheduleCapped(chains, c) == chains

\* pollStatus: if (shouldContinue) timeoutId = setTimeout(pollStatus, 2000)
Reschedule(chains, c) == chains (+) SetToBag({[c EXCEPT !.phase = "timer"]})

\* The inputs; both are disabled while submitting or polling.
UsSetUrl(u) ==
    /\ ~UsBusy /\ us.view.mounted
    /\ ~us.view.isSubmitting /\ ~us.view.isPolling
    /\ u # us.view.url
    /\ us' = [us EXCEPT !.view.url = u]
    /\ UNCHANGED <<ci, hd, am, ju, kv, ac>>

UsSetMaxPages(n) ==
    /\ ~UsBusy /\ us.view.mounted
    /\ ~us.view.isSubmitting /\ ~us.view.isPolling
    /\ n # us.view.maxPages
    /\ us' = [us EXCEPT !.view.maxPages = n]
    /\ UNCHANGED <<ci, hd, am, ju, kv, ac>>

\* The text handleSubmit shows for a rejected form.
ValidationError ==
    <<"Please enter a valid URL (starting with http:// or https://) and set max pages to at least 1.">>

\* The kbId prop when it is the empty string.
EmptyKbId == ""

\* A validation that forgets the scheme test.
SubmitRejectedUnlessParses ==
    \/ us.view.kbId = EmptyKbId
    \/ us.view.url = <<>>
    \/ ~ParsesAsUrl(us.view.url)
    \/ us.view.maxPages < 1

\* !kbId || !url || !isValidUrl(url) || maxPages < 1
SubmitRejected ==
    \/ us.view.kbId = EmptyKbId
    \/ us.view.url = <<>>
    \/ ~isValidUrl(us.view.url)
    \/ us.view.maxPages < 1

\* handleSubmit up to its await of the POST.
UsSubmit ==
    /\ ~UsBusy /\ us.view.mounted
    /\ ~us.view.isSubmitting /\ ~us.view.isPolling
    /\ BagCardinality(us.chains) < MaxChains
    /\ IF SubmitRejected
       THEN us' = [us EXCEPT
                !.view.error = ValidationError,
                !.view.successMessage = Null]
       ELSE us' = [us EXCEPT
                !.view.isSubmitting = TRUE,
                !.view.error = Null,
                !.view.successMessage = Null,
                !.view.scrapeStatus = NoStatus,
                !.submits = @ (+) SetToBag({[kb |-> us.view.kbId, own |-> TRUE]})]
    /\ us' # us
    /\ UNCHANGED <<ci, hd, am, ju, kv, ac>>

SubmitResponses == {[kind |-> "ok", message |-> "started"]}
                      \cup HttpErrors \cup {NetworkError}

\* The backend answers POST /agents/{kb}/scrape-url.
UsSubmitRespond(r, resp) ==
    /\ ~UsBusy
    /\ BagIn(r, us.submits)
    /\ resp \in SubmitResponses
    /\ us' = [us EXCEPT
            !.submits = @ (-) SetToBag({r}),
            !.arrived = [kind |-> "submit", req |-> r, resp |-> resp]]
    /\ UNCHANGED <<ci, hd, am, ju, kv, ac>>

\* handleSubmit after its await, and the polling effect when isPolling changed.
UsSubmitHandle ==
    /\ us.arrived.kind = "submit"
    /\ LET r == us.arrived.req
           resp == us.arrived.resp
       IN IF ~r.own
          THEN us' = [us EXCEPT !.arrived = NoArrival]
          ELSE IF resp.kind = "ok"
          THEN us' = [us EXCEPT
                   !.arrived = NoArrival,
                   !.view.successMessage = IF resp.message # "" THEN <<resp.message>>
                                           ELSE <<"Starting scrape for ", "submitted_url">>,
                   !.view.url = <<>>,
                   !.view.maxPages = 1,
                   !.view.isPolling = TRUE,
                   !.view.isSubmitting = FALSE,
                   !.chains = IF us.view.isPolling THEN @
                              ELSE PollingEffect(@, TRUE, us.view.kbId),
                   !.parity = IF us.view.isPolling THEN @ ELSE Flip(@)]
          ELSE us' = [us EXCEPT
                   !.arrived = NoArrival,
                   !.view.error = ScrapeErrorMessage(resp, "Scraping request failed: status "),
                   !.view.isSubmitting = FALSE]
    /\ UNCHANGED <<ci, hd, am, ju, kv, ac>>

StatusResponses == {[kind |-> "ok", status |-> st] : st \in ScrapeStatuses}
                      \cup HttpErrors \cup {NetworkError}

\* The backend answers GET /agents/{kb}/scrape-status of chain c.
UsStatusRespond(c, resp) ==
    /\ ~UsBusy
    /\ BagIn(c, us.chains) /\ c.phase = "fetch"
    /\ resp \in StatusResponses
    /\ us' = [us EXCEPT
            !.chains = @ (-) SetToBag({c}),
            !.arrived = [kind |-> "status", chain |-> c, resp |-> resp]]
    /\ UNCHANGED <<ci, hd, am, ju, kv, ac>>

\* fetchScrapeStatus after its await and pollStatus after its await, and the
\* polling effect when isPolling changed.
UsStatusHandle ==
    /\ us.arrived.kind = "status"
    /\ LET c == us.arrived.chain
           resp == us.arrived.resp
           shouldContinue == resp.kind = "ok" /\ resp.status = "processing"
       IN IF shouldContinue
          THEN us' = [us EXCEPT
                   !.arrived = NoArrival,
                   !.view.scrapeStatus = IF c.own THEN resp.status ELSE @,
                   !.chains = Reschedule(@, c)]
          ELSE IF ~c.own
          THEN us' = [us EXCEPT !.arrived = NoArrival]
          ELSE us' = [us EXCEPT
                   !.arrived = NoArrival,
                   !.view.scrapeStatus = IF resp.kind = "ok" THEN resp.status ELSE @,
                   !.view.isPolling = FALSE,
                   !.view.successMessage =
                       IF resp.kind = "ok" /\ resp.status = "completed"
                       THEN <<"Scraping completed! Added ", "chars_added", " characters of content.">>
                       ELSE @,
                   !.view.error =
                       IF resp.kind = "ok"
                       THEN IF resp.status = "failed"
                            THEN <<"Scraping failed. Please try again.">> ELSE @
                       ELSE ScrapeErrorMessage(resp, "Failed to fetch status: "),
                   !.clearTimers =
                       IF resp.kind = "ok" /\ resp.status \in {"completed", "failed"}
                       THEN @ \cup {resp.status} ELSE @,
                   !.chains = IF us.view.isPolling THEN PollingEffect(@, FALSE, us.view.kbId)
                              ELSE @]
    /\ UNCHANGED <<ci, hd, am, ju, kv, ac>>

\* The 2 s timer of chain c fires pollStatus, whose closure saw isPolling true.
UsPollTimerFire(c) ==
    /\ ~UsBusy
    /\ BagIn(c, us.chains) /\ c.phase = "timer"
    /\ us' = [us EXCEPT
            !.chains = (@ (-) SetToBag({c})) (+) SetToBag({[c EXCEPT !.phase = "fetch"]}),
            !.parity = Flip(@)]
    /\ UNCHANGED <<ci, hd, am, ju, kv, ac>>

\* The 5 s timers set when a scrape completed or failed.
UsClearTimerFire(kind) ==
    /\ ~UsBusy
    /\ kind \in us.clearTimers
    /\ us' = [us EXCEPT
            !.clearTimers = @ \ {kind},
            !.view.successMessage = IF kind = "completed" THEN Null ELSE @,
            !.view.scrapeStatus = NoStatus]
    /\ UNCHANGED <<ci, hd, am, ju, kv, ac>>

\* The kbId prop changes: fetchScrapeStatus is a new function and the polling
\* effect runs again.
UsChangeKb(k) ==
    /\ ~UsBusy /\ us.view.mounted
    /\ k # us.view.kbId
    /\ us.view.isPolling => BagCardinality(us.chains) < MaxChains
    /\ us' = [us EXCEPT
            !.view.kbId = k,
            !.chains = PollingEffect(@, us.view.isPolling, k),
            !.parity = IF us.view.isPolling THEN Flip(@) ELSE @]
    /\ UNCHANGED <<ci, hd, am, ju, kv, ac>>

\* The component unmounts: the effect is cleaned up and the state is dropped;
\* the 5 s timers of the instance only call its setters, which do nothing now.
UsUnmount ==
    /\ ~UsBusy /\ us.view.mounted
    /\ us.nMounts < MaxMounts
    /\ LET cleaned == EffectCleanup(us.chains)
       IN us' = [us EXCEPT
               !.view = UsFresh(FALSE, us.view.kbId),
               !.clearTimers = {},
               !.chains = BagOfSeq([c \in BagToSet(cleaned) |-> [c EXCEPT !.own = FALSE]], cleaned),
               !.submits = BagOfSeq([r \in BagToSet(@) |-> [r EXCEPT !.own = FALSE]], @)]
    /\ UNCHANGED <<ci, hd, am, ju, kv, ac>>

\* The component mounts again, with fresh state.
UsMount(k) ==
    /\ ~UsBusy /\ ~us.view.mounted
    /\ us' = [us EXCEPT !.view = UsFresh(TRUE, k), !.nMounts = @ + 1]
    /\ UNCHANGED <<ci, hd, am, ju, kv, ac>>

NextScraper ==
    \/ \E u \in UrlInputs : UsSetUrl(u)
    \/ \E n \in MaxPagesInputs : UsSetMaxPages(n)
    \/ UsSubmit
    \/ \E r \in BagToSet(us.submits) : \E resp \in SubmitResponses : UsSubmitRespond(r, resp)
    \/ UsSubmitHandle
    \/ \E c \in ChainSet : \E resp \in StatusResponses : UsStatusRespond(c, resp)
    \/ UsStatusHandle
    \/ \E c \in ChainSet : UsPollTimerFire(c)
    \/ \E kind \in {"completed", "failed"} : UsClearTimerFire(kind)
    \/ \E k \in KbIds : UsChangeKb(k)
    \/ UsUnmount
    \/ \E k \in KbIds : UsMount(k)

\* The scrape-status requests in flight, of any component instance.
StatusRequestsInFlight ==
    LET fetching == {c \in ChainSet : c.phase = "fetch"}
    IN BagCardinality([c \in fetching |-> us.chains[c]])

\* C16: after the component has unmounted no further scrape-status request is
\* issued, also when a request was in flight at the unmount and then answers
\* "processing": while no component is mounted, the number of scrape-status
\* requests in flight does not grow.
C16_NoRequestAfterUnmount ==
    [][(~us.view.mounted /\ ~us'.view.mounted) =>
          StatusRequestsInFlight' <= StatusRequestsInFlight]_vars

\* The form and its polling in a component that stays mounted; the kbId prop
\* may also be the empty string.
NextScraperForm ==
    \/ \E u \in UrlInputs : UsSetUrl(u)
    \/ \E n \in MaxPagesInputs : UsSetMaxPages(n)
    \/ UsSubmit
    \/ \E r \in BagToSet(us.submits) : \E resp \in SubmitResponses : UsSubmitRespond(r, resp)
    \/ UsSubmitHandle
    \/ \E c \in ChainSet : \E resp \in StatusResponses : UsStatusRespond(c, resp)
    \/ UsStatusHandle
    \/ \E c \in ChainSet : UsPollTimerFire(c)
    \/ \E kind \in {"completed", "failed"} : UsClearTimerFire(kind)
    \/ \E k \in KbIds \cup {EmptyKbId} : UsChangeKb(k)

\* The scrape-url POST requests in flight.
SubmitsInFlight == BagCardinality(us.submits)

\* What the claim requires of a submission, stated without isValidUrl.
SubmissionAcceptable ==
    /\ us.view.kbId # EmptyKbId
    /\ Len(us.view.url) >= 2
    /\ us.view.url[1] \in {"http://", "https://"}
    /\ us.view.maxPages >= 1

\* C11: handleSubmit sends the scrape-url POST only when kbId is set, the URL
\* parses and starts with http:// or https://, and maxPages >= 1; otherwise it
\* sets the validation error, sends no request and leaves isPolling and
\* isSubmitting unchanged.
C11_SubmitValidates ==
    [][/\ SubmitsInFlight' > SubmitsInFlight => SubmissionAcceptable
       /\ (UsSubmit /\ SubmissionAcceptable) => SubmitsInFlight' = SubmitsInFlight + 1
       /\ (UsSubmit /\ ~SubmissionAcceptable) =>
              /\ us'.view.error = ValidationError
              /\ us'.submits = us.submits
              /\ us'.chains = us.chains
              /\ us'.view.isPolling = us.view.isPolling
              /\ us'.view.isSubmitting = us.view.isSubmitting]_vars

\* handleSubmit has rejected a URL that parses but is not http(s), for a set
\* kbId and maxPages 1.
C11_Witness ==
    /\ us.view.error = ValidationError
    /\ ~us.view.isSubmitting /\ us.submits = EmptyBag
    /\ us.view.url = <<"ftp://", "x">>
    /\ us.view.kbId # EmptyKbId /\ us.view.maxPages = 1

\* The backend keeps answering "processing".
ProcessingOnly == {[kind |-> "ok", status |-> "processing"]}

NextScraperLive ==
    \/ \E u \in UrlInputs : UsSetUrl(u)
    \/ \E n \in MaxPagesInputs : UsSetMaxPages(n)
    \/ UsSubmit
    \/ \E r \in BagToSet(us.submits) : \E resp \in SubmitResponses : UsSubmitRespond(r, resp)
    \/ UsSubmitHandle
    \/ \E c \in ChainSet : \E resp \in ProcessingOnly : UsStatusRespond(c, resp)
    \/ UsStatusHandle
    \/ \E c \in ChainSet : UsPollTimerFire(c)
    \/ \E k \in KbIds : UsChangeKb(k)
    \/ UsUnmount
    \/ \E k \in KbIds : UsMount(k)

\* The backend answers every scrape-status request, continuations of settled
\* promises run, and timers that were set fire.
ScraperFairness ==
    /\ WF_vars(\E c \in ChainSet : \E resp \in ProcessingOnly : UsStatusRespond(c, resp))
    /\ WF_vars(UsSubmitHandle)
    /\ WF_vars(UsStatusHandle)
    /\ WF_vars(\E c \in ChainSet : UsPollTimerFire(c))

\* Scrape-status requests of the mounted instance that are in flight.
StatusRequestsOutstanding ==
    LET fetching == {c \in ChainSet : c.own /\ c.phase = "fetch"}
        RECURSIVE Sum(_)
        Sum(S) == IF S = {} THEN 0
                  ELSE LET c == CHOOSE x \in S : TRUE
                       IN us.chains[c] + Sum(S \ {c})
    IN Sum(fetching)

\* C4: in every reachable state at most one scrape-status request of the
\* component is outstanding, also after kbId changes during polling.
C4_OneStatusRequest == StatusRequestsOutstanding <= 1

\* C5: handling a scrape-status response whose status is not "processing"
\* sets isPolling to false, and no scrape-status request is issued while
\* isPolling stays false, i.e. until a new scrape is successfully submitted.
C5_PollingStops ==
    [][/\ (/\ us.arrived.kind = "status"
           /\ us.arrived.chain.own
           /\ us.arrived.resp.kind = "ok"
           /\ us.arrived.resp.status # "processing") => ~us'.view.isPolling
       /\ (us.view.mounted /\ us'.view.mounted
              /\ StatusRequestsOutstanding' > StatusRequestsOutstanding) =>
              us'.view.isPolling]_vars

UsCurrentChainExists ==
    \/ \E c \in ChainSet : c.current /\ c.own
    \/ us.arrived.kind = "status" /\ us.arrived.chain.current /\ us.arrived.chain.own

\* C6: while the backend keeps reporting "processing" and the component stays
\* mounted, polling never stops on its own: isPolling stays true, the polling
\* loop of the current effect stays alive, and another scrape-status request
\* is always eventually issued.
C6_PollsForever ==
    /\ [](us.view.mounted /\ us.view.isPolling => UsCurrentChainExists)
    /\ [][us.view.isPolling /\ us'.view.mounted => us'.view.isPolling]_vars
    /\ \A b \in {0, 1} :
          (us.view.mounted /\ us.view.isPolling /\ us.parity = b)
              ~> (us.parity # b \/ ~us.view.mounted)

C6_Witness ==
    /\ us.view.mounted /\ us.view.isPolling
    /\ us.view.scrapeStatus = "processing"
    /\ \E c \in ChainSet : c.current /\ c.own /\ c.phase = "fetch"

(***************************************************************************)
(* MainApp and AgentManager                                                *)
(*                                                                         *)
(* am holds the state of MainApp (kbs, selectedKbId, isLoading, appError), *)
(* the state of the AgentManager it renders in the sidebar, the agents the *)
(* backend has (server), and the requests in flight.                       *)
(***************************************************************************)
MaxManagerEvents == 4

NameInputs == {<<" ">>, <<"n">>}

KbOrder == <<"A", "B">>

RECURSIVE ServerList(_, _)
ServerList(order, server) ==
    IF order = <<>> THEN <<>>
    ELSE (IF Head(order) \in server THEN <<Head(order)>> ELSE <<>>)
            \o ServerList(Tail(order), server)

\* error.message of what the try blocks of handleCreateKb and handleDeleteKb throw
ManagerErrorMessage(resp) ==
    IF resp.kind = "http"
    THEN IF resp.body # "" THEN <<resp.body>> ELSE <<"HTTP error! status: ", resp.status>>
    ELSE FailedToFetch

\* err.message of what the try block of fetchKbs throws
FetchKbsErrorMessage(resp) ==
    IF resp.kind = "http" THEN <<"HTTP error! status: ", resp.status>> ELSE FailedToFetch

AmRequest(kind, kb, sel, then) == [kind |-> kind, kb |-> kb, sel |-> sel, then |-> then]

\* The state of the widget after its first render and effects.
AmStart ==
    [kbs |-> <<>>,
          selectedKbId |-> NoKb,
          activeTab |-> "config",
          isLoading |-> TRUE,
          appError |-> Null,
          newKbName |-> <<>>,
          creatingAgent |-> FALSE,
          createLoading |-> FALSE,
          error |-> Null,
          deletingKbId |-> NoKb,
          server |-> {"A"},
          pending |-> SetToBag({AmRequest("kbs", NoKb, NoKb, "none")}),
          arrived |-> NoArrival,
          nEvents |-> 0]

AmInit == am = AmStart

AmBusy == am.arrived # NoArrival

\* The error paragraph of AgentManager sits inside the create form.
AmErrorShown == am.creatingAgent /\ am.error # Null

\* The error banner of MainApp.
AppErrorShown == am.appError # Null

\* The agent list is rendered, so its rows can be clicked.
AmListShown == ~am.isLoading

InKbs(kb) == \E i \in 1..Len(am.kbs) : am.kbs[i] = kb

\* "New Agent"
AmOpenCreate ==
    /\ ~AmBusy /\ ~am.creatingAgent
    /\ am' = [am EXCEPT !.creatingAgent = TRUE]
    /\ UNCHANGED <<ci, hd, us, ju, kv, ac>>

\* "Cancel"
AmCancelCreate ==
    /\ ~AmBusy /\ am.creatingAgent
    /\ am' = [am EXCEPT !.creatingAgent = FALSE, !.error = Null, !.newKbName = <<>>]
    /\ UNCHANGED <<ci, hd, us, ju, kv, ac>>

AmTypeName(s) ==
    /\ ~AmBusy /\ am.creatingAgent
    /\ s # am.newKbName
    /\ am' = [am EXCEPT !.newKbName = s]
    /\ UNCHANGED <<ci, hd, us, ju, kv, ac>>

\* A guard that takes a name of spaces for a name.
AmCreateKbUntrimmed ==
    /\ ~AmBusy /\ am.creatingAgent /\ ~am.createLoading
    /\ am.nEvents < MaxManagerEvents
    /\ IF am.newKbName = <<>>
       THEN am' = [am EXCEPT !.error = <<"Please enter a name for the agent">>,
                             !.nEvents = @ + 1]
       ELSE am' = [am EXCEPT !.createLoading = TRUE,
                             !.error = Null,
                             !.pending = @ (+) SetToBag({AmRequest("create", NoKb, NoKb, "none")}),
                             !.nEvents = @ + 1]
    /\ UNCHANGED <<ci, hd, us, ju, kv, ac>>

\* handleCreateKb up to its await of the POST.
AmCreateKb ==
    /\ ~AmBusy /\ am.creatingAgent /\ ~am.createLoading
    /\ am.nEvents < MaxManagerEvents
    /\ IF Trim(am.newKbName) = <<>>
       THEN am' = [am EXCEPT !.error = <<"Please enter a name for the agent">>,
                             !.nEvents = @ + 1]
       ELSE am' = [am EXCEPT !.createLoading = TRUE,
                             !.error = Null,
                             !.pending = @ (+) SetToBag({AmRequest("create", NoKb, NoKb, "none")}),
                             !.nEvents = @ + 1]
    /\ UNCHANGED <<ci, hd, us, ju, kv, ac>>

\* handleDeleteKb up to its await of the DELETE; the closure holds selectedKbId.
AmDeleteKb(kb) ==
    /\ ~AmBusy /\ AmListShown /\ InKbs(kb)
    /\ am.deletingKbId # kb
    /\ am.nEvents < MaxManagerEvents
    /\ am' = [am EXCEPT !.deletingKbId = kb,
                        !.error = Null,
                        !.pending = @ (+) SetToBag({AmRequest("delete", kb, am.selectedKbId, "none")}),
                        !.nEvents = @ + 1]
    /\ UNCHANGED <<ci, hd, us, ju, kv, ac>>

\* A row of the list is clicked: handleKbSelected.
AmSelectKb(kb) ==
    /\ ~AmBusy /\ AmListShown /\ InKbs(kb)
    /\ kb # am.selectedKbId
    /\ am' = [am EXCEPT !.selectedKbId = kb]
    /\ UNCHANGED <<ci, hd, us, ju, kv, ac>>

ManagerResponses(r) ==
    HttpErrors \cup {NetworkError} \cup
    CASE r.kind = "kbs" ->
            {[kind |-> "ok", kbs |-> ServerList(KbOrder, am.server)], [kind |-> "ok", kbs |-> <<>>]}
      [] r.kind = "create" ->
            {[kind |-> "ok", kb_id |-> k] : k \in {k \in KbIds : k \notin am.server}}
      [] r.kind = "delete" ->
            IF r.kb \in am.server THEN {[kind |-> "ok"]} ELSE {}

\* The backend answers a request of MainApp or AgentManager.
AmRespond(r, resp) ==
    /\ ~AmBusy
    /\ BagIn(r, am.pending)
    /\ resp \in ManagerResponses(r)
    /\ am' = [am EXCEPT
            !.pending = @ (-) SetToBag({r}),
            !.arrived = r @@ [resp |-> resp],
            !.server = IF resp.kind # "ok" THEN @
                       ELSE IF r.kind = "create" THEN @ \cup {resp.kb_id}
                       ELSE IF r.kind = "delete" THEN @ \ {r.kb}
                       ELSE @]
    /\ UNCHANGED <<ci, hd, us, ju, kv, ac>>

\* fetchKbs after its await; when handleDeleteKb awaited it, its finally block.
AmKbsHandle ==
    /\ am.arrived.kind = "kbs"
    /\ LET resp == am.arrived.resp
       IN am' = [am EXCEPT
               !.arrived = NoArrival,
               !.kbs = IF resp.kind = "ok" THEN resp.kbs ELSE @,
               !.appError = IF resp.kind = "ok" THEN @
                            ELSE <<"Failed to fetch agents: ">> \o FetchKbsErrorMessage(resp),
               !.isLoading = FALSE,
               !.deletingKbId = IF am.arrived.then = "delete" THEN NoKb ELSE @]
    /\ UNCHANGED <<ci, hd, us, ju, kv, ac>>

\* handleCreateKb after its await, with handleKbCreated of MainApp.
AmCreateHandle ==
    /\ am.arrived.kind = "create"
    /\ LET resp == am.arrived.resp
       IN IF resp.kind = "ok"
          THEN am' = [am EXCEPT
                   !.arrived = NoArrival,
                   !.kbs = Append(@, resp.kb_id),
                   !.selectedKbId = resp.kb_id,
                   !.newKbName = <<>>,
                   !.creatingAgent = FALSE,
                   !.createLoading = FALSE]
          ELSE am' = [am EXCEPT
                   !.arrived = NoArrival,
                   !.error = ManagerErrorMessage(resp),
                   !.createLoading = FALSE]
    /\ UNCHANGED <<ci, hd, us, ju, kv, ac>>

\* handleDeleteKb after its await of the DELETE: on success up to its await of
\* refreshKbs (fetchKbs of MainApp), on failure its catch and finally blocks.
AmDeleteHandle ==
    /\ am.arrived.kind = "delete"
    /\ LET resp == am.arrived.resp
           r == am.arrived
       IN IF resp.kind = "ok"
          THEN am' = [am EXCEPT
                   !.arrived = NoArrival,
                   !.selectedKbId = IF r.sel = r.kb THEN NoKb ELSE @,
                   !.isLoading = TRUE,
                   !.appError = Null,
                   !.pending = @ (+) SetToBag({AmRequest("kbs", NoKb, NoKb, "delete")})]
          ELSE am' = [am EXCEPT
                   !.arrived = NoArrival,
                   !.error = ManagerErrorMessage(resp),
                   !.deletingKbId = NoKb]
    /\ UNCHANGED <<ci, hd, us, ju, kv, ac>>

\* The tab buttons of MainApp.
Tabs == {"config", "upload", "upload-json", "view-kb", "chat"}

\* A tab button whose handler stores a value no branch of the content names.
AmSetActiveTabUnknown(tab) ==
    /\ ~AmBusy /\ tab \in Tabs /\ tab # am.activeTab
    /\ am.nEvents < MaxManagerEvents
    /\ am' = [am EXCEPT !.activeTab = IF tab = "view-kb" THEN "kb" ELSE tab,
                        !.nEvents = @ + 1]
    /\ UNCHANGED <<ci, hd, us, ju, kv, ac>>

\* onClick={() => setActiveTab(tab)}
AmSetActiveTab(tab) ==
    /\ ~AmBusy /\ tab \in Tabs /\ tab # am.activeTab
    /\ am.nEvents < MaxManagerEvents
    /\ am' = [am EXCEPT !.activeTab = tab,
                        !.nEvents = @ + 1]
    /\ UNCHANGED <<ci, hd, us, ju, kv, ac>>

\* The "No Agent Selected" placeholder.
Placeholder == "No Agent Selected"

\* The tab content: the widget mounted, or the placeholder.
TabContent(activeTab, selectedKbId) ==
    IF activeTab = "upload"
    THEN IF selectedKbId # NoKb THEN "FileUpload" ELSE Placeholder
    ELSE IF activeTab = "upload-json"
    THEN IF selectedKbId # NoKb THEN "JSONUpload" ELSE Placeholder
    ELSE IF activeTab = "view-kb"
    THEN IF selectedKbId # NoKb THEN "KnowledgeBaseViewer" ELSE Placeholder
    ELSE IF activeTab = "chat"
    THEN IF selectedKbId # NoKb THEN "ChatInterface" ELSE Placeholder
    ELSE IF activeTab = "config"
    THEN IF selectedKbId # NoKb THEN "AgentConfig" ELSE Placeholder
    ELSE IF selectedKbId # NoKb THEN "ChatInterface" ELSE Placeholder

NextManager ==
    \/ \E tab \in Tabs : AmSetActiveTab(tab)
    \/ AmOpenCreate
    \/ AmCancelCreate
    \/ \E s \in NameInputs : AmTypeName(s)
    \/ AmCreateKb
    \/ \E kb \in KbIds : AmDeleteKb(kb)
    \/ \E kb \in KbIds : AmSelectKb(kb)
    \/ \E r \in BagToSet(am.pending) : \E resp \in ManagerResponses(r) : AmRespond(r, resp)
    \/ AmKbsHandle
    \/ AmCreateHandle
    \/ AmDeleteHandle

\* C8: when DELETE /agents/{kb} fails, the error is displayed to the user
\* whether or not the create form is open.
C8_DeleteFailureShown ==
    [][(am.arrived.kind = "delete" /\ am.arrived.resp.kind = "http") =>
          (am'.error # Null /\ AmErrorShown')]_vars

\* The widget the claim expects on each tab.
WidgetOfTab ==
    [tab \in Tabs |->
        CASE tab = "config" -> "AgentConfig"
          [] tab = "upload" -> "FileUpload"
          [] tab = "upload-json" -> "JSONUpload"
          [] tab = "view-kb" -> "KnowledgeBaseViewer"
          [] tab = "chat" -> "ChatInterface"]

\* The widgets and the placeholder the tab content consists of.
PanelsShown ==
    {p \in {WidgetOfTab[tab] : tab \in Tabs} \cup {Placeholder} :
        TabContent(am.activeTab, am.selectedKbId) = p}

\* C12: in MainApp activeTab is initially config and always one of config,
\* upload, upload-json, view-kb and chat; exactly one panel is shown for it, the
\* widget of that tab or the placeholder; and while selectedKbId is null the
\* panel is the "No Agent Selected" placeholder on every tab.
C12_TabsAndPanels ==
    /\ am.activeTab = "config"
    /\ [](/\ am.activeTab \in Tabs
          /\ Cardinality(PanelsShown) = 1
          /\ PanelsShown \subseteq {WidgetOfTab[am.activeTab], Placeholder}
          /\ am.selectedKbId = NoKb =>
                \A tab \in Tabs : TabContent(tab, am.selectedKbId) = Placeholder
          /\ am.selectedKbId # NoKb => PanelsShown = {WidgetOfTab[am.activeTab]})

\* The chat tab is open and the agent that was selected has been deleted.
C12_Witness ==
    /\ am.activeTab = "chat"
    /\ am.selectedKbId = NoKb
    /\ am.server = {}
    /\ PanelsShown = {Placeholder}

(***************************************************************************)
(* JSONUpload                                                              *)
(*                                                                         *)
(* The textarea content is a sequence of characters; JsonParses is         *)
(* JSON.parse restricted to the alphabet JsonChars (numbers made of the    *)
(* digit 1, arrays, and blanks).                                           *)
(***************************************************************************)
MaxJsonLen == 2

MaxJsonEvents == 2

JsonChars == {" ", "1", "[", "]"}

\* What one keystroke makes of the textarea content: a character typed at the
\* end, or the last character deleted.
JsonInputs(data) ==
    {Append(data, c) : c \in IF Len(data) < MaxJsonLen THEN JsonChars ELSE {}}
        \cup (IF data = <<>> THEN {} ELSE {SubSeq(data, 1, Len(data) - 1)})

CharAt(s, i) == IF i <= Len(s) THEN s[i] ELSE "eof"

RECURSIVE SkipWs(_, _)
SkipWs(s, i) == IF CharAt(s, i) = " " THEN SkipWs(s, i + 1) ELSE i

RECURSIVE SkipDigits(_, _)
SkipDigits(s, i) == IF CharAt(s, i) = "1" THEN SkipDigits(s, i + 1) ELSE i

\* The position after the JSON value that starts at i (blanks skipped), or 0
\* when there is none.
RECURSIVE ParseValue(_, _)
ParseValue(s, i) ==
    LET start == SkipWs(s, i)
    IN IF CharAt(s, start) = "1" THEN SkipDigits(s, start)
       ELSE IF CharAt(s, start) = "["
       THEN LET inner == SkipWs(s, start + 1)
            IN IF CharAt(s, inner) = "]" THEN inner + 1
               ELSE LET after == ParseValue(s, inner)
                    IN IF after = 0 THEN 0
                       ELSE IF CharAt(s, SkipWs(s, after)) = "]"
                            THEN SkipWs(s, after) + 1
                            ELSE 0
       ELSE 0

\* JSON.parse(data) does not throw.
JsonParses(data) ==
    LET after == ParseValue(data, 1)
    IN after # 0 /\ SkipWs(data, after) = Len(data) + 1

NoMessage == [type |-> "none", text |-> Null]

StatusMessage(type, text) == [type |-> type, text |-> text]

JuFresh(mounted, kbId) ==
    [mounted |-> mounted, kbId |-> kbId,
     jsonData |-> <<>>, isValidJson |-> TRUE,
     uploadStatus |-> "idle", uploadMessage |-> NoMessage,
     existingJsonContent |-> <<>>, isFetchingJson |-> mounted, fetchJsonError |-> Null]

JuRequest(kind, kb, closureStatus, own) ==
    [kind |-> kind, kb |-> kb, closureStatus |-> closureStatus, own |-> own]

\* The state of the widget after its first render and effects.
JuStart ==
    [view |-> JuFresh(TRUE, "A"),
          pending |-> SetToBag({JuRequest("json", "A", "idle", TRUE)}),
          arrived |-> NoArrival,
          nEvents |-> 0]

JuInit == ju = JuStart

JuBusy == ju.arrived # NoArrival

\* The guard of handleUpload with its closure values.
UploadRefusedOnlyInvalid == ~ju.view.isValidJson

\* The guard of handleUpload.
UploadRefused ==
    \/ ~ju.view.isValidJson
    \/ Trim(ju.view.jsonData) = <<>>
    \/ ju.view.uploadStatus = "uploading"

\* disabled of the upload button
UploadButtonDisabled ==
    \/ ~ju.view.isValidJson
    \/ Trim(ju.view.jsonData) = <<>>
    \/ ju.view.uploadStatus = "uploading"

\* handleJsonChange; the textarea is disabled while uploading.
JuJsonChange(data) ==
    /\ ~JuBusy /\ ju.view.mounted
    /\ ju.view.uploadStatus # "uploading"
    /\ data # ju.view.jsonData
    /\ ju' = [ju EXCEPT
            !.view.jsonData = data,
            !.view.uploadMessage = NoMessage,
            !.view.uploadStatus = "idle",
            !.view.isValidJson = IF Trim(data) = <<>> THEN TRUE ELSE JsonParses(data)]
    /\ UNCHANGED <<ci, hd, us, am, kv, ac>>

\* fetchExistingJson up to its await.
JuFetchStarted(view, kb) ==
    [view EXCEPT !.isFetchingJson = TRUE, !.fetchJsonError = Null]

\* message of the upload's catch block
UploadFailureMessage(message) ==
    IF Contains(message, "valid JSON")
    THEN <<"Failed to upload: Invalid JSON format.">>
    ELSE <<"Failed to upload: ">> \o message

\* What finally leaves in uploadStatus: the closure still sees the status of
\* the render in which handleUpload was called.
FinallyStatus(closureStatus, status) ==
    IF closureStatus # "success" /\ closureStatus # "error" THEN "idle" ELSE status

\* handleUpload is called: its guard, then up to its await of the POST.
JuUpload ==
    /\ ~JuBusy /\ ju.view.mounted
    /\ ju.nEvents < MaxJsonEvents
    /\ IF UploadRefused
       THEN ju' = [ju EXCEPT
                !.view.uploadMessage =
                    IF ~ju.view.isValidJson
                    THEN StatusMessage("error", <<"Input is not valid JSON.">>)
                    ELSE IF Trim(ju.view.jsonData) = <<>>
                    THEN StatusMessage("error", <<"JSON input cannot be empty.">>)
                    ELSE @,
                !.nEvents = @ + 1]
       ELSE IF ~JsonParses(ju.view.jsonData)
       THEN ju' = [ju EXCEPT
                !.view.uploadStatus = FinallyStatus(ju.view.uploadStatus, "error"),
                !.view.uploadMessage =
                    StatusMessage("error", UploadFailureMessage(<<"Unexpected token", "valid JSON">>)),
                !.nEvents = @ + 1]
       ELSE ju' = [ju EXCEPT
                !.view.uploadStatus = "uploading",
                !.view.uploadMessage = NoMessage,
                !.pending = @ (+) SetToBag({JuRequest("upload", ju.view.kbId, ju.view.uploadStatus, TRUE)}),
                !.nEvents = @ + 1]
    /\ UNCHANGED <<ci, hd, us, am, kv, ac>>

JsonResponses(r) ==
    HttpErrors \cup {NetworkError} \cup
    IF r.kind = "upload"
    THEN {[kind |-> "ok", message |-> m] : m \in {"", "stored"}}
    ELSE {[kind |-> "ok", isArray |-> b] : b \in BOOLEAN}

\* The backend answers a request of JSONUpload.
JuRespond(r, resp) ==
    /\ ~JuBusy
    /\ BagIn(r, ju.pending)
    /\ resp \in JsonResponses(r)
    /\ ju' = [ju EXCEPT
            !.pending = @ (-) SetToBag({r}),
            !.arrived = r @@ [resp |-> resp]]
    /\ UNCHANGED <<ci, hd, us, am, kv, ac>>

\* handleUpload after its await: success path with fetchExistingJson, or the
\* catch block; then the finally block.
JuUploadHandle ==
    /\ ju.arrived.kind = "upload"
    /\ LET r == ju.arrived
           resp == r.resp
           refetch == SetToBag({JuRequest("json", r.kb, "idle", r.own)})
       IN IF ~r.own
          THEN ju' = [ju EXCEPT
                   !.arrived = NoArrival,
                   !.pending = IF resp.kind = "ok" THEN @ (+) refetch ELSE @]
          ELSE IF resp.kind = "ok"
          THEN ju' = [ju EXCEPT
                   !.arrived = NoArrival,
                   !.view = [JuFetchStarted(@, r.kb) EXCEPT
                       !.uploadStatus = FinallyStatus(r.closureStatus, "success"),
                       !.uploadMessage =
                           StatusMessage("success",
                               IF resp.message # "" THEN <<resp.message>>
                               ELSE <<"JSON data uploaded successfully.">>),
                       !.jsonData = <<>>],
                   !.pending = @ (+) refetch]
          ELSE ju' = [ju EXCEPT
                   !.arrived = NoArrival,
                   !.view.uploadStatus = FinallyStatus(r.closureStatus, "error"),
                   !.view.uploadMessage =
                       StatusMessage("error", UploadFailureMessage(
                           IF resp.kind = "http"
                           THEN IF resp.body # "" THEN <<resp.body>>
                                ELSE <<"Failed to upload JSON data.">>
                           ELSE FailedToFetch))]
    /\ UNCHANGED <<ci, hd, us, am, kv, ac>>

\* fetchExistingJson after its await.
JuFetchHandle ==
    /\ ju.arrived.kind = "json"
    /\ LET r == ju.arrived
           resp == r.resp
       IN IF ~r.own
          THEN ju' = [ju EXCEPT !.arrived = NoArrival]
          ELSE ju' = [ju EXCEPT
                   !.arrived = NoArrival,
                   !.view.existingJsonContent =
                       IF resp.kind = "ok" /\ resp.isArray THEN <<"item-of", r.kb>> ELSE <<>>,
                   !.view.fetchJsonError =
                       IF resp.kind = "ok" THEN @
                       ELSE <<"Failed to fetch existing JSON: ">> \o ManagerErrorMessage(resp),
                   !.view.isFetchingJson = FALSE]
    /\ UNCHANGED <<ci, hd, us, am, kv, ac>>

\* The kbId prop changes: fetchExistingJson is a new function and its effect runs.
JuChangeKb(k) ==
    /\ ~JuBusy /\ ju.view.mounted
    /\ k # ju.view.kbId
    /\ ju.nEvents < MaxJsonEvents
    /\ ju' = [ju EXCEPT
            !.view = [JuFetchStarted(@, k) EXCEPT !.kbId = k],
            !.pending = @ (+) SetToBag({JuRequest("json", k, "idle", TRUE)}),
            !.nEvents = @ + 1]
    /\ UNCHANGED <<ci, hd, us, am, kv, ac>>

\* MainApp stops rendering the component (another tab, or no agent selected).
JuUnmount ==
    /\ ~JuBusy /\ ju.view.mounted
    /\ ju.nEvents < MaxJsonEvents
    /\ ju' = [ju EXCEPT
            !.view = JuFresh(FALSE, ju.view.kbId),
            !.pending = BagOfSeq([r \in BagToSet(@) |-> [r EXCEPT !.own = FALSE]], @),
            !.nEvents = @ + 1]
    /\ UNCHANGED <<ci, hd, us, am, kv, ac>>

\* MainApp renders the component again: fresh state and the mount effect.
JuMount(k) ==
    /\ ~JuBusy /\ ~ju.view.mounted
    /\ ju' = [ju EXCEPT
            !.view = JuFresh(TRUE, k),
            !.pending = @ (+) SetToBag({JuRequest("json", k, "idle", TRUE)})]
    /\ UNCHANGED <<ci, hd, us, am, kv, ac>>

NextJson ==
    \/ \E data \in JsonInputs(ju.view.jsonData) : JuJsonChange(data)
    \/ JuUpload
    \/ \E r \in BagToSet(ju.pending) : \E resp \in JsonResponses(r) : JuRespond(r, resp)
    \/ JuUploadHandle
    \/ JuFetchHandle
    \/ \E k \in KbIds : JuChangeKb(k)
    \/ JuUnmount
    \/ \E k \in KbIds : JuMount(k)

\* POST requests of the mounted instance that are in flight.
UploadsInFlight ==
    LET uploads == {r \in BagToSet(ju.pending) : r.kind = "upload" /\ r.own}
        RECURSIVE Sum(_)
        Sum(S) == IF S = {} THEN 0
                  ELSE LET r == CHOOSE x \in S : TRUE
                       IN ju.pending[r] + Sum(S \ {r})
    IN Sum(uploads) + (IF ju.arrived.kind = "upload" /\ ju.arrived.own THEN 1 ELSE 0)

\* The cases in which nothing may be uploaded.
UploadBlocked ==
    \/ Trim(ju.view.jsonData) = <<>>
    \/ ~JsonParses(ju.view.jsonData)
    \/ UploadsInFlight > 0

\* C10: in every reachable state where the textarea content is empty or blank,
\* is not parseable JSON, or an upload is in flight, the upload button is
\* disabled, and a step taken from such a state sends no POST request.
C10_NoUploadWhenBlocked ==
    /\ [](ju.view.mounted /\ UploadBlocked => UploadButtonDisabled)
    /\ [][ju.view.mounted /\ UploadBlocked => UploadsInFlight' <= UploadsInFlight]_vars

\* handleUpload was called on unparseable content and on blank content.
C10_Witness ==
    /\ ju.view.mounted /\ UploadBlocked
    /\ ju.view.uploadMessage.type = "error"
    /\ ju.view.uploadMessage.text \in {<<"Input is not valid JSON.">>, <<"JSON input cannot be empty.">>}

\* C15: once an upload request of the mounted component has settled,
\* uploadStatus is "success" if the upload succeeded and "error" if it failed,
\* whatever the status was when the upload was clicked.
C15_UploadStatusSettles ==
    [][(ju.arrived.kind = "upload" /\ ju.arrived.own) =>
          ju'.view.uploadStatus =
              IF ju.arrived.resp.kind = "ok" THEN "success" ELSE "error"]_vars

(***************************************************************************)
(* KnowledgeBaseViewer                                                     *)
(***************************************************************************)

MaxViewerEvents == 2

KvRequest(kind, kb) == [kind |-> kind, kb |-> kb]

\* The state after the first render and its effect: fetchContent has started.
KvStart ==
    [kbId |-> "A",
          content |-> <<>>,
          totalCount |-> 0,
          isLoading |-> TRUE,
          error |-> Null,
          isKbDrawerOpen |-> FALSE,
          isCleaning |-> FALSE,
          cleanupError |-> Null,
          showCleanupSuccess |-> FALSE,
          successTimers |-> 0,
          pending |-> SetToBag({KvRequest("content", "A")}),
          arrived |-> NoArrival,
          nEvents |-> 0]

KvInit == kv = KvStart

KvBusy == kv.arrived # NoArrival

\* fetchContent up to its await, for the kbId of its closure.
KvFetchStarted(v, kb) ==
    [v EXCEPT !.isLoading = TRUE,
              !.error = Null,
              !.pending = @ (+) SetToBag({KvRequest("content", kb)})]

\* The kbId prop changes: fetchContent is recreated and its effect runs.
KvChangeKb(k) ==
    /\ ~KvBusy /\ k # kv.kbId
    /\ kv.nEvents < MaxViewerEvents
    /\ kv' = KvFetchStarted([kv EXCEPT !.kbId = k, !.nEvents = @ + 1], k)
    /\ UNCHANGED <<ci, hd, us, am, ju, ac>>

\* "Add New Knowledge"
KvOpenKbDrawer ==
    /\ ~KvBusy /\ ~kv.isKbDrawerOpen
    /\ kv.nEvents < MaxViewerEvents
    /\ kv' = [kv EXCEPT !.isKbDrawerOpen = TRUE, !.nEvents = @ + 1]
    /\ UNCHANGED <<ci, hd, us, am, ju, ac>>

\* handleCloseKbDrawer
KvCloseKbDrawer ==
    /\ ~KvBusy /\ kv.isKbDrawerOpen
    /\ kv' = KvFetchStarted([kv EXCEPT !.isKbDrawerOpen = FALSE], kv.kbId)
    /\ UNCHANGED <<ci, hd, us, am, ju, ac>>

\* handleCleanupKb up to its await; the button is disabled while cleaning or
\* loading.
KvCleanupKb(userConfirmed) ==
    /\ ~KvBusy
    /\ ~kv.isCleaning /\ ~kv.isLoading
    /\ kv.nEvents < MaxViewerEvents
    /\ IF ~userConfirmed
       THEN kv' = [kv EXCEPT !.nEvents = @ + 1]
       ELSE kv' = [kv EXCEPT
                !.isCleaning = TRUE,
                !.cleanupError = Null,
                !.showCleanupSuccess = FALSE,
                !.pending = @ (+) SetToBag({KvRequest("cleanup", kv.kbId)}),
                !.nEvents = @ + 1]
    /\ UNCHANGED <<ci, hd, us, am, ju, ac>>

ViewerResponses(r) ==
    HttpErrors \cup {NetworkError} \cup
    IF r.kind = "cleanup"
    THEN {[kind |-> "ok"]}
    ELSE {[kind |-> "ok", items |-> n] : n \in {0, 1}}

\* The backend answers a request of the viewer.
KvRespond(r, resp) ==
    /\ ~KvBusy
    /\ BagIn(r, kv.pending)
    /\ resp \in ViewerResponses(r)
    /\ kv' = [kv EXCEPT
            !.pending = @ (-) SetToBag({r}),
            !.arrived = r @@ [resp |-> resp]]
    /\ UNCHANGED <<ci, hd, us, am, ju, ac>>

\* fetchContent after its await.
KvContentHandle ==
    /\ kv.arrived.kind = "content"
    /\ LET r == kv.arrived
           resp == r.resp
       IN IF resp.kind = "ok"
          THEN kv' = [kv EXCEPT
                   !.arrived = NoArrival,
                   !.content = IF resp.items = 0 THEN <<>> ELSE <<"item-of", r.kb>>,
                   !.totalCount = resp.items,
                   !.isLoading = FALSE]
          ELSE kv' = [kv EXCEPT
                   !.arrived = NoArrival,
                   !.error = <<"Failed to fetch knowledge base content: ">>
                                \o ManagerErrorMessage(resp),
                   !.isLoading = FALSE]
    /\ UNCHANGED <<ci, hd, us, am, ju, ac>>

\* A cleanup continuation that refreshes the content in its finally block.
KvCleanupHandleAlwaysRefresh ==
    /\ kv.arrived.kind = "cleanup"
    /\ LET r == kv.arrived
           resp == r.resp
       IN IF resp.kind = "ok"
          THEN kv' = [KvFetchStarted(kv, r.kb) EXCEPT
                   !.arrived = NoArrival,
                   !.showCleanupSuccess = TRUE,
                   !.successTimers = @ + 1,
                   !.isCleaning = FALSE]
          ELSE kv' = [KvFetchStarted(kv, r.kb) EXCEPT
                   !.arrived = NoArrival,
                   !.cleanupError =
                       IF resp.kind = "http"
                       THEN IF resp.body # "" THEN <<resp.body>>
                            ELSE <<"Cleanup failed: status ", resp.status>>
                       ELSE FailedToFetch,
                   !.isCleaning = FALSE]
    /\ UNCHANGED <<ci, hd, us, am, ju, ac>>

\* handleCleanupKb after its await; fetchContent is the one of its closure.
KvCleanupHandle ==
    /\ kv.arrived.kind = "cleanup"
    /\ LET r == kv.arrived
           resp == r.resp
       IN IF resp.kind = "ok"
          THEN kv' = [KvFetchStarted(kv, r.kb) EXCEPT
                   !.arrived = NoArrival,
                   !.showCleanupSuccess = TRUE,
                   !.successTimers = @ + 1,
                   !.isCleaning = FALSE]
          ELSE kv' = [kv EXCEPT
                   !.arrived = NoArrival,
                   !.cleanupError =
                       IF resp.kind = "http"
                       THEN IF resp.body # "" THEN <<resp.body>>
                            ELSE <<"Cleanup failed: status ", resp.status>>
                       ELSE FailedToFetch,
                   !.isCleaning = FALSE]
    /\ UNCHANGED <<ci, hd, us, am, ju, ac>>

\* setTimeout(() => setShowCleanupSuccess(false), 3000)
KvSuccessTimeout ==
    /\ ~KvBusy /\ kv.successTimers > 0
    /\ kv' = [kv EXCEPT !.successTimers = @ - 1, !.showCleanupSuccess = FALSE]
    /\ UNCHANGED <<ci, hd, us, am, ju, ac>>

NextViewer ==
    \/ \E k \in KbIds : KvChangeKb(k)
    \/ KvOpenKbDrawer
    \/ KvCloseKbDrawer
    \/ \E userConfirmed \in BOOLEAN : KvCleanupKb(userConfirmed)
    \/ \E r \in BagToSet(kv.pending) : \E resp \in ViewerResponses(r) : KvRespond(r, resp)
    \/ KvContentHandle
    \/ KvCleanupHandle
    \/ KvSuccessTimeout

\* The three widgets that mutate backend data.  They share no state, so a
\* behaviour exercises one of them while the other two rest in their first
\* state.
NextMutations ==
    \/ am = AmStart /\ kv = KvStart /\ NextJson
    \/ ju = JuStart /\ kv = KvStart /\ NextManager
    \/ ju = JuStart /\ am = AmStart /\ NextViewer

\* The number of requests of one kind among the requests in flight.
InFlight(pending, kind) ==
    BagCardinality([r \in {x \in BagToSet(pending) : x.kind = kind} |-> pending[r]])

\* C13: a mutation is followed by a re-fetch only on success.  When the
\* response of a JSON upload, of a KB cleanup or of an agent delete is ok, its
\* continuation issues one more fetch of the existing JSON, of the KB content or
\* of the agent list; when the request failed, the continuation issues no
\* request and leaves the list the widget holds as it was.
C13_RefetchOnlyOnSuccess ==
    [][/\ ju.arrived.kind = "upload" =>
            IF ju.arrived.resp.kind = "ok"
            THEN InFlight(ju.pending, "json")' = InFlight(ju.pending, "json") + 1
            ELSE /\ ju'.pending = ju.pending
                 /\ ju'.view.existingJsonContent = ju.view.existingJsonContent
       /\ kv.arrived.kind = "cleanup" =>
            IF kv.arrived.resp.kind = "ok"
            THEN InFlight(kv.pending, "content")' = InFlight(kv.pending, "content") + 1
            ELSE /\ kv'.pending = kv.pending
                 /\ kv'.content = kv.content
       /\ am.arrived.kind = "delete" =>
            IF am.arrived.resp.kind = "ok"
            THEN InFlight(am.pending, "kbs")' = InFlight(am.pending, "kbs") + 1
            ELSE /\ am'.pending = am.pending
                 /\ am'.kbs = am.kbs]_vars

\* A cleanup has failed: the viewer shows the cleanup error beside the
\* content it held, and no request is in flight.
C13_Witness ==
    /\ kv.cleanupError # Null
    /\ ~kv.isCleaning
    /\ kv.content # <<>>
    /\ kv.pending = EmptyBag /\ ~KvBusy

(***************************************************************************)
(* AgentConfig: the configuration editor of one agent.  A configuration    *)
(* is a record of its two settable fields; a field holds a value, null or  *)
(* is undefined (missing from the object).                                 *)
(***************************************************************************)
MaxConfigEvents == 3

\* null and undefined for system_prompt
NullPrompt == "<null>"

NoPrompt == "<undefined>"

\* null and undefined for max_iterations
NullNumber == -1

NoNumber == -2

\* What the user can type into the prompt textarea and the number input: the
\* number input yields null when it is emptied, and accepts 0 although its
\* min attribute is 1.
PromptInputs == {"", "typed"}

NumberInputs == {NullNumber, 0, 2}

\* useState<AgentConfigData>({}), and the reset after a failed fetch
EmptyConfig == [system_prompt |-> NoPrompt, max_iterations |-> NoNumber]

\* What the backend holds at first; the API omits fields that are not set.
ServerStart ==
    [k \in KbIds |->
        IF k = "A" THEN [system_prompt |-> NoPrompt, max_iterations |-> 1]
        ELSE [system_prompt |-> "prompt-B", max_iterations |-> NoNumber]]

\* data.system_prompt ?? null, data.max_iterations ?? null
fullConfig(data) ==
    [system_prompt |-> IF data.system_prompt \in {NoPrompt, NullPrompt}
                       THEN NullPrompt ELSE data.system_prompt,
     max_iterations |-> IF data.max_iterations \in {NoNumber, NullNumber}
                        THEN NullNumber ELSE data.max_iterations]

\* config.max_iterations ?? null
OrNull(n) == IF n = NoNumber THEN NullNumber ELSE n

\* A payload that carries whatever number the user entered.
payloadUnchecked(config, initialConfig) ==
    [system_prompt |->
        IF config.system_prompt # NoPrompt
              /\ config.system_prompt # initialConfig.system_prompt
        THEN config.system_prompt ELSE NoPrompt,
     max_iterations |->
        IF config.max_iterations # NoNumber
              /\ OrNull(config.max_iterations) # OrNull(initialConfig.max_iterations)
        THEN OrNull(config.max_iterations)
        ELSE NoNumber]

\* The payload handleSaveChanges builds; an undefined field is not a key of it.
payload(config, initialConfig) ==
    [system_prompt |->
        IF config.system_prompt # NoPrompt
              /\ config.system_prompt # initialConfig.system_prompt
        THEN config.system_prompt ELSE NoPrompt,
     max_iterations |->
        IF config.max_iterations # NoNumber
              /\ OrNull(config.max_iterations) # OrNull(initialConfig.max_iterations)
        THEN IF OrNull(config.max_iterations) # NullNumber /\ OrNull(config.max_iterations) >= 1
             THEN OrNull(config.max_iterations) ELSE NullNumber
        ELSE NoNumber]

\* Object.keys(payload).length === 0
EmptyPayload == [system_prompt |-> NoPrompt, max_iterations |-> NoNumber]

\* JSON.stringify(config) !== JSON.stringify(initialConfig): the keys keep
\* their order and an undefined field is left out of both texts.
hasChanges(config, initialConfig) == config # initialConfig

\* errorData.message || `Failed to <what> config (status: ...)`, or the
\* message of the TypeError of a failed fetch
ConfigErrorMessage(resp, what) ==
    IF resp.kind = "http"
    THEN IF resp.body # "" THEN <<resp.body>>
         ELSE <<"Failed to ", what, " config (status: ", resp.status, ")">>
    ELSE FailedToFetch

\* A request of the editor: GET config, or PUT config with its payload and
\* the config of the render in which Save was clicked.
AcRequest(kind, kb, body, config) ==
    [kind |-> kind, kb |-> kb, body |-> body, config |-> config]

\* The state after the first render and its effect: fetchConfig has started.
AcStart ==
    [kbId |-> "A",
     config |-> EmptyConfig,
     initialConfig |-> EmptyConfig,
     isLoading |-> TRUE,
     isSaving |-> FALSE,
     error |-> Null,
     saveSuccess |-> FALSE,
     successTimers |-> 0,
     server |-> ServerStart,
     pending |-> SetToBag({AcRequest("config", "A", EmptyPayload, EmptyConfig)}),
     arrived |-> NoArrival,
     nEvents |-> 0]

AcInit == ac = AcStart

AcBusy == ac.arrived # NoArrival

\* The form is rendered when the editor is neither loading nor showing an error.
AcFormShown == ~ac.isLoading /\ ac.error = Null

\* The kbId prop changes: fetchConfig is recreated and its effect runs it.
AcChangeKb(k) ==
    /\ ~AcBusy /\ k # ac.kbId
    /\ ac.nEvents < MaxConfigEvents
    /\ ac' = [ac EXCEPT
            !.kbId = k,
            !.isLoading = TRUE,
            !.error = Null,
            !.saveSuccess = FALSE,
            !.pending = @ (+) SetToBag({AcRequest("config", k, EmptyPayload, EmptyConfig)}),
            !.nEvents = @ + 1]
    /\ UNCHANGED <<ci, hd, us, am, ju, kv>>

\* handleInputChange of the system_prompt textarea
AcInputPrompt(value) ==
    /\ ~AcBusy /\ AcFormShown /\ ~ac.isSaving
    /\ value # ac.config.system_prompt
    /\ ac.nEvents < MaxConfigEvents
    /\ ac' = [ac EXCEPT !.config.system_prompt = value, !.nEvents = @ + 1]
    /\ UNCHANGED <<ci, hd, us, am, ju, kv>>

\* handleInputChange of the max_iterations number input
AcInputMaxIterations(value) ==
    /\ ~AcBusy /\ AcFormShown /\ ~ac.isSaving
    /\ value # ac.config.max_iterations
    /\ ac.nEvents < MaxConfigEvents
    /\ ac' = [ac EXCEPT !.config.max_iterations = value, !.nEvents = @ + 1]
    /\ UNCHANGED <<ci, hd, us, am, ju, kv>>

\* handleSaveChanges up to its await; the button is disabled without changes
\* and while saving.
AcSaveChanges ==
    /\ ~AcBusy /\ AcFormShown /\ ~ac.isSaving
    /\ hasChanges(ac.config, ac.initialConfig)
    /\ ac.nEvents < MaxConfigEvents
    /\ IF payload(ac.config, ac.initialConfig) = EmptyPayload
       THEN ac' = [ac EXCEPT
                !.isSaving = FALSE,
                !.error = Null,
                !.saveSuccess = FALSE,
                !.nEvents = @ + 1]
       ELSE ac' = [ac EXCEPT
                !.isSaving = TRUE,
                !.error = Null,
                !.saveSuccess = FALSE,
                !.pending = @ (+) SetToBag({AcRequest("save", ac.kbId,
                                payload(ac.config, ac.initialConfig), ac.config)}),
                !.nEvents = @ + 1]
    /\ UNCHANGED <<ci, hd, us, am, ju, kv>>

\* What the backend holds after a PUT: the fields of the payload replace its own.
Stored(held, body) ==
    [system_prompt |-> IF body.system_prompt # NoPrompt
                       THEN body.system_prompt ELSE held.system_prompt,
     max_iterations |-> IF body.max_iterations # NoNumber
                        THEN body.max_iterations ELSE held.max_iterations]

ConfigResponses(r) ==
    HttpErrors \cup {NetworkError} \cup
    IF r.kind = "save"
    THEN {[kind |-> "ok"]}
    ELSE {[kind |-> "ok", data |-> ac.server[r.kb]]}

\* The backend answers a request of the editor.
AcRespond(r, resp) ==
    /\ ~AcBusy
    /\ BagIn(r, ac.pending)
    /\ resp \in ConfigResponses(r)
    /\ ac' = [ac EXCEPT
            !.pending = @ (-) SetToBag({r}),
            !.arrived = r @@ [resp |-> resp],
            !.server = IF r.kind = "save" /\ resp.kind = "ok"
                       THEN [@ EXCEPT ![r.kb] = Stored(@, r.body)] ELSE @]
    /\ UNCHANGED <<ci, hd, us, am, ju, kv>>

\* fetchConfig after its await.
AcConfigHandle ==
    /\ ac.arrived.kind = "config"
    /\ LET resp == ac.arrived.resp
       IN IF resp.kind = "ok"
          THEN ac' = [ac EXCEPT
                   !.arrived = NoArrival,
                   !.config = fullConfig(resp.data),
                   !.initialConfig = fullConfig(resp.data),
                   !.isLoading = FALSE]
          ELSE ac' = [ac EXCEPT
                   !.arrived = NoArrival,
                   !.error = <<"Failed to fetch agent configuration: ">>
                                \o ConfigErrorMessage(resp, "fetch"),
                   !.config = EmptyConfig,
                   !.initialConfig = EmptyConfig,
                   !.isLoading = FALSE]
    /\ UNCHANGED <<ci, hd, us, am, ju, kv>>

\* handleSaveChanges after its await; config is the one of its closure.
AcSaveHandle ==
    /\ ac.arrived.kind = "save"
    /\ LET resp == ac.arrived.resp
       IN IF resp.kind = "ok"
          THEN ac' = [ac EXCEPT
                   !.arrived = NoArrival,
                   !.initialConfig = ac.arrived.config,
                   !.saveSuccess = TRUE,
                   !.successTimers = @ + 1,
                   !.isSaving = FALSE]
          ELSE ac' = [ac EXCEPT
                   !.arrived = NoArrival,
                   !.error = <<"Failed to save configuration: ">>
                                \o ConfigErrorMessage(resp, "save"),
                   !.isSaving = FALSE]
    /\ UNCHANGED <<ci, hd, us, am, ju, kv>>

\* setTimeout(() => setSaveSuccess(false), 3000)
AcSuccessTimeout ==
    /\ ~AcBusy /\ ac.successTimers > 0
    /\ ac' = [ac EXCEPT !.successTimers = @ - 1, !.saveSuccess = FALSE]
    /\ UNCHANGED <<ci, hd, us, am, ju, kv>>

NextConfig ==
    \/ \E k \in KbIds : AcChangeKb(k)
    \/ \E value \in PromptInputs : AcInputPrompt(value)
    \/ \E value \in NumberInputs : AcInputMaxIterations(value)
    \/ AcSaveChanges
    \/ \E r \in BagToSet(ac.pending) : \E resp \in ConfigResponses(r) : AcRespond(r, resp)
    \/ AcConfigHandle
    \/ AcSaveHandle
    \/ AcSuccessTimeout

\* The PUT requests this step adds to the requests in flight.
SavesStarted ==
    {r \in BagToSet(ac'.pending) :
        r.kind = "save" /\ CopiesIn(r, ac'.pending) > CopiesIn(r, ac.pending)}

\* C25: a PUT is sent only when system_prompt or max_iterations differs from
\* the last loaded or saved configuration; its payload holds exactly the
\* changed fields; a max_iterations it carries is null or at least 1; and a
\* save with nothing changed sends no request and leaves isSaving false.
C25_SavePayload ==
    [][/\ \A r \in SavesStarted :
            /\ r.kb = ac.kbId
            /\ \/ ac.config.system_prompt # ac.initialConfig.system_prompt
               \/ ac.config.max_iterations # ac.initialConfig.max_iterations
            /\ r.body.system_prompt # NoPrompt <=>
                  ac.config.system_prompt # ac.initialConfig.system_prompt
            /\ r.body.system_prompt # NoPrompt =>
                  r.body.system_prompt = ac.config.system_prompt
            /\ r.body.max_iterations # NoNumber <=>
                  ac.config.max_iterations # ac.initialConfig.max_iterations
            /\ r.body.max_iterations \notin {NoNumber, NullNumber} =>
                  /\ r.body.max_iterations >= 1
                  /\ r.body.max_iterations = ac.config.max_iterations
       /\ (ac.config = ac.initialConfig /\ ac'.nEvents # ac.nEvents
              /\ ac'.kbId = ac.kbId /\ ac'.config = ac.config) =>
            /\ ac'.pending = ac.pending
            /\ ~ac'.isSaving]_vars

\* The user typed a prompt and the number 0 and clicked Save: the PUT in
\* flight carries the prompt and null for max_iterations.
C25_Witness ==
    /\ ac.isSaving
    /\ ac.config.max_iterations = 0
    /\ \E r \in BagToSet(ac.pending) :
          /\ r.kind = "save"
          /\ r.body.system_prompt = "typed"
          /\ r.body.max_iterations = NullNumber

\* C26: after a successful save initialConfig equals config (hasChanges is
\* false) and holds the values the backend was sent; after a failed save
\* config and initialConfig are unchanged, hasChanges stays true, error is set
\* and isSaving is false.
C26_SaveOutcome ==
    [][ac.arrived.kind = "save" =>
          IF ac.arrived.resp.kind = "ok"
          THEN /\ ac'.initialConfig = ac'.config
               /\ ~hasChanges(ac'.config, ac'.initialConfig)
               /\ ac.arrived.body.system_prompt # NoPrompt =>
                     ac'.initialConfig.system_prompt = ac.arrived.body.system_prompt
               /\ ac.arrived.body.max_iterations # NoNumber =>
                     ac'.initialConfig.max_iterations = ac.arrived.body.max_iterations
               /\ ~ac'.isSaving
          ELSE /\ ac'.config = ac.config
               /\ ac'.initialConfig = ac.initialConfig
               /\ hasChanges(ac'.config, ac'.initialConfig)
               /\ ac'.error # Null
               /\ ~ac'.isSaving]_vars

\* A config request of the selected agent is in flight.
CurrentConfigInFlight ==
    \E r \in BagToSet(ac.pending) : r.kind = "config" /\ r.kb = ac.kbId

\* C27: once the config request of the selected agent has settled, the
\* response to a config request of another agent changes neither config nor
\* initialConfig.
C27_StaleConfigIgnored ==
    [][(/\ ac.arrived.kind \in {"config", "save"}
        /\ ac.arrived.kb # ac.kbId
        /\ ~CurrentConfigInFlight) =>
          /\ ac'.config = ac.config
          /\ ac'.initialConfig = ac.initialConfig]_vars

\* The conversation list on its own: the interval, the backend's answers,
\* the continuation of fetchConversations and the filter buttons.
NextDeskList ==
    \/ HdIntervalTick
    \/ \E r \in BagToSet(hd.pending) : \E resp \in DeskResponses(r) : HdRespond(r, resp)
    \/ HdConversationsHandle
    \/ \E f \in {"all", "attention"} : HdSetFilter(f)

\* The list is ordered by last_message_timestamp, newest first.
IsNewestFirst(list) ==
    \A i, j \in 1..Len(list) :
        i < j => list[i].last_message_timestamp >= list[j].last_message_timestamp

\* How many times c occurs in the list.
Occurrences(list, c) == Cardinality({i \in 1..Len(list) : list[i] = c})

\* The positions of the stored conversations the filter lets through.
ShownIndexes ==
    {i \in 1..Len(hd.conversations) :
        hd.filter = "all" \/ hd.conversations[i].needs_human_attention}

\* C28: after every successful conversations fetch the stored list holds the
\* fetched conversations ordered by last_message_timestamp, newest first; the
\* displayed list is the stored list in the same order, with every
\* conversation under filter all and exactly those that need human attention
\* under filter attention.
C28_SortedAndFiltered ==
    /\ [](IsNewestFirst(hd.conversations))
    /\ [](/\ Len(filteredConversations) = Cardinality(ShownIndexes)
          /\ \A k \in 1..Len(filteredConversations) :
                \E i \in ShownIndexes :
                   /\ Cardinality({j \in ShownIndexes : j <= i}) = k
                   /\ filteredConversations[k] = hd.conversations[i])
    /\ [][(hd.arrived.kind = "conversations" /\ hd.arrived.resp.kind = "ok") =>
             /\ Len(hd'.conversations) = Len(hd.arrived.resp.conversations)
             /\ \A i \in 1..Len(hd.arrived.resp.conversations) :
                   Occurrences(hd'.conversations, hd.arrived.resp.conversations[i])
                      = Occurrences(hd.arrived.resp.conversations,
                                    hd.arrived.resp.conversations[i])
             /\ IsNewestFirst(hd'.conversations)]_vars

\* The fetched conversations are stored newest first, B's before A's, and
\* under filter attention only B's is displayed.
C28_Witness ==
    /\ ~hd.isLoadingConversations /\ hd.arrived = NoArrival
    /\ hd.filter = "attention"
    /\ Len(hd.conversations) = 2
    /\ hd.conversations[1].kb_id = "B" /\ hd.conversations[2].kb_id = "A"
    /\ hd.conversations[1].last_message_timestamp > hd.conversations[2].last_message_timestamp
    /\ Len(filteredConversations) = 1
    /\ filteredConversations[1].kb_id = "B"

\* C29: once an agent delete has succeeded and the refresh of the agent list
\* that follows it has completed with the backend's list, selectedKbId is null
\* or the id of an agent in the list.
C29_SelectionInList ==
    [][(/\ am.arrived.kind = "kbs" /\ am.arrived.then = "delete"
        /\ am.arrived.resp.kind = "ok"
        /\ am.arrived.resp.kbs = ServerList(KbOrder, am.server)) =>
          \/ am'.selectedKbId = NoKb
          \/ \E i \in 1..Len(am'.kbs) : am'.kbs[i] = am'.selectedKbId]_vars

\* This step is handleCreateKb up to its return or its await.
CreateCalled ==
    /\ am'.nEvents # am.nEvents
    /\ am'.activeTab = am.activeTab
    /\ am'.deletingKbId = am.deletingKbId

\* C30: handleCreateKb with an empty or blank name sets an error and sends no
\* request; a successful create appends the returned agent to the list,
\* selects it and closes the create form; a failed create leaves the list and
\* the selection unchanged and sets the error; createLoading ends false in
\* every case.
C30_CreateAgent ==
    [][/\ (CreateCalled /\ Trim(am.newKbName) = <<>>) =>
            /\ am'.error # Null
            /\ am'.pending = am.pending
            /\ ~am'.createLoading
       /\ (CreateCalled /\ Trim(am.newKbName) # <<>>) =>
            InFlight(am'.pending, "create") = InFlight(am.pending, "create") + 1
       /\ am.arrived.kind = "create" =>
            IF am.arrived.resp.kind = "ok"
            THEN /\ am'.kbs = Append(am.kbs, am.arrived.resp.kb_id)
                 /\ am'.selectedKbId = am.arrived.resp.kb_id
                 /\ ~am'.creatingAgent
                 /\ ~am'.createLoading
            ELSE /\ am'.kbs = am.kbs
                 /\ am'.selectedKbId = am.selectedKbId
                 /\ am'.error # Null
                 /\ ~am'.createLoading]_vars

\* Agent B has been created beside A: it is the last of the list and
\* selected, and the create form is closed.
C30_Witness ==
    /\ am.arrived = NoArrival
    /\ am.kbs = <<"A", "B">>
    /\ am.selectedKbId = "B"
    /\ ~am.creatingAgent /\ ~am.createLoading
    /\ am.newKbName = <<>> /\ am.error = Null

Init == CiInit /\ HdInit /\ UsInit /\ AmInit /\ JuInit /\ KvInit /\ AcInit

SpecChat == Init /\ [][NextChat]_vars

SpecDesk == Init /\ [][NextDesk]_vars

SpecDeskList == Init /\ [][NextDeskList]_vars

SpecScraper == Init /\ [][NextScraper]_vars

SpecScraperForm == Init /\ [][NextScraperForm]_vars

SpecJson == Init /\ [][NextJson]_vars

SpecViewer == Init /\ [][NextViewer]_vars

SpecConfig == Init /\ [][NextConfig]_vars

SpecMutations == Init /\ [][NextMutations]_vars

SpecManager == Init /\ [][NextManager]_vars

SpecScraperLive == Init /\ [][NextScraperLive]_vars /\ ScraperFairness

====
